---------------------------- MODULE Spec2Model ----------------------------
(***************************************************************************)
(* Verification model of the device/bus emulation drivers.                 *)
(*                                                                         *)
(*  - hp64k (HP 64000): floppy I/F DMA sequencer, floppy interrupts and    *)
(*    the interrupt-level (IRL) register logic.                            *)
(*  - crimfght: sound-CPU interrupt path and main-CPU address map.         *)
(*                                                                         *)
(* Every handler of the drivers is an operator on a record holding the     *)
(* driver's member variables; an action runs one whole handler, including  *)
(* the callbacks that re-enter the driver while it runs.                   *)
(***************************************************************************)
EXTENDS Integers, Sequences, FiniteSets, TLC

(***************************************************************************)
(* Bounds of the model.                                                    *)
(***************************************************************************)
\* number of distinct data bytes the FDC data register can return
NFdcBytes == 2
\* number of distinct 16-bit words the CPU writes during DMA transfers
NCpuWords == 2

(***************************************************************************)
(* Bit helpers (BIT, BIT_MASK, BIT_SET, BIT_CLR) on unsigned integers.     *)
(***************************************************************************)
BIT_MASK(n) == 2 ^ n

BIT(w, n) == (w \div BIT_MASK(n)) % 2 = 1

BIT_CLR(w, n) == IF BIT(w, n) THEN w - BIT_MASK(n) ELSE w

BIT_SET(w, n) == IF BIT(w, n) THEN w ELSE w + BIT_MASK(n)

\* ~x truncated to uint8_t
NOT8(x) == 255 - x

\* x & y on uint8_t
AND8(x, y) ==
    LET b(n) == IF BIT(x, n) /\ BIT(y, n) THEN BIT_MASK(n) ELSE 0
    IN  b(0) + b(1) + b(2) + b(3) + b(4) + b(5) + b(6) + b(7)

\* (uint8_t)(data >> 8) and (uint8_t)data of a 16-bit word
MSB(data) == (data \div 256) % 256

LSB(data) == data % 256

(***************************************************************************)
(* floppy_state_t                                                          *)
(***************************************************************************)
HP64K_FLPST_IDLE   == "IDLE"
HP64K_FLPST_DMAWR1 == "DMAWR1"
HP64K_FLPST_DMAWR2 == "DMAWR2"
HP64K_FLPST_DMARD1 == "DMARD1"
HP64K_FLPST_DMARD2 == "DMARD2"

floppy_state_t ==
    { HP64K_FLPST_IDLE, HP64K_FLPST_DMAWR1, HP64K_FLPST_DMAWR2,
      HP64K_FLPST_DMARD1, HP64K_FLPST_DMARD2 }


(***************************************************************************)
(* State.                                                                  *)
(*   hp   the member variables of hp64k_state                              *)
(*   cpu  the input lines of the hybrid CPU driven by the driver           *)
(*        (dmar: DMA request, irl: interrupt request low)                  *)
(*   drv  the devices around the driver.  The floppy drives: cb_set tells  *)
(*        whether the index-pulse and write-protect callbacks of the       *)
(*        driver are installed in them.  uart: the RXD, DSR and CTS inputs *)
(*        of the USART.  rs232: the TXD, DTR and RTS lines the port        *)
(*        received and the RXD, DCD and CTS lines it drives                *)
(*   keys the key matrix inputs KEY0..KEY3, as the set of the row/column   *)
(*        positions (0..127) whose bit reads 1                             *)
(*   io   what the handler that ran last did to its surroundings:          *)
(*        op         the handler and its offset / line state               *)
(*        data       the data it was called with (-1 when it takes none)   *)
(*        dmar_calls the arguments of its m_cpu->dmar_w() calls, in order  *)
(*        fdc_io     its accesses to the FDC, in order                     *)
(*        logged     its logerror() calls, in order                        *)
(*        line_calls its calls of the line inputs of the USART and of the  *)
(*                   RS232 port, in order                                  *)
(*        seen       the control register, the DMA enable and the          *)
(*                   interrupt flags as they were at the entry of every    *)
(*                   callback the FDC made from inside it, in order        *)
(*        path       the values it assigned to m_floppy_if_state, in order *)
(*        ret        the value it returned (-1 when it returns nothing     *)
(*                   or all-ones)                                          *)
(*   steps the number of handler runs so far, in the specifications that   *)
(*        explore runs of bounded length                                   *)
(*   snd  crimfght: the sound latch and the audio CPU interrupt path       *)
(*   bus  the address space of a bus master: its ranges, the bytes held by *)
(*        its handlers, the last access, the crimfght bank registers and,  *)
(*        in wide, the last access of the 16-bit bus of the konmedal68k:   *)
(*        its kind, address and size in bytes and the handler calls it was *)
(*        decomposed into, in the order they were made                     *)
(*   wire a line of the interconnection layer and its destinations         *)
(*   sch  the scheduler: the current time, the timers in the order of      *)
(*        their registration (a handle is the position of its timer) and   *)
(*        the firings of the last advance_to call, in order                *)
(*   dev  what the timers of the other machines call back into: the        *)
(*        control register and the IRQ3 / IRQ4 lines of konmedal68k_state, *)
(*        the reset line of the MCU of dw_keyboard_device; and graph, the  *)
(*        device graph of a machine that is brought up: the devices in the *)
(*        order of their construction, the phase of the bring-up, what     *)
(*        every reference is bound to and how often it was bound, the tags *)
(*        reported as unresolved, the devices started, in order, and the   *)
(*        devices a start hook used before they were started; and cbus,    *)
(*        the interrupt lines of a C-bus slot and the MPU-401 card in it   *)
(***************************************************************************)
VARIABLES hp, cpu, drv, keys, io, steps, snd, bus, wire, sch, dev

vars == << hp, cpu, drv, keys, io, steps, snd, bus, wire, sch, dev >>

\* the trace of a handler that has done nothing yet
NoIo(h, a) ==
    [ op |-> << h, a >>, data |-> -1, dmar_calls |-> << >>, fdc_io |-> << >>,
      logged |-> << >>, line_calls |-> << >>, seen |-> << >>, path |-> << >>,
      ret |-> -1 ]

\* the driver and its surroundings at the entry of handler h with argument a
World(h, a) ==
    [ hp |-> hp, cpu |-> cpu, drv |-> drv, io |-> NoIo(h, a), sch |-> sch,
      dev |-> dev ]

\* the same at the entry of a write handler called with data d
WorldW(h, a, d) == [ World(h, a) EXCEPT !.io.data = d ]

\* (w is evaluated once)
Commit(w) ==
    \E v \in { w } :
        /\ hp' = v.hp
        /\ cpu' = v.cpu
        /\ drv' = v.drv
        /\ io' = v.io
        /\ sch' = v.sch
        /\ dev' = v.dev
        /\ UNCHANGED << snd, bus, wire >>

(***************************************************************************)
(* Calls out of the driver.                                                *)
(***************************************************************************)
\* m_cpu->dmar_w(state)
dmar_w(w, state) ==
    [ w EXCEPT !.cpu.dmar = state, !.io.dmar_calls = Append(@, state) ]

\* logerror(...)
logerror(w, msg) == [ w EXCEPT !.io.logged = Append(@, msg) ]

\* m_floppy_if_state = st
set_if_state(w, st) ==
    [ w EXCEPT !.hp.m_floppy_if_state = st, !.io.path = Append(@, st) ]

(***************************************************************************)
(* Interrupt level register.                                               *)
(***************************************************************************)
hp64k_update_irl(w) ==
    CHOOSE r \in { [ v EXCEPT !.cpu.irl =
                        IF AND8(v.hp.m_irl_mask, v.hp.m_irl_pending) # 0
                        THEN 1 ELSE 0 ] : v \in { w } } : TRUE

\* a variant of hp64k_irq_callback, not part of the model: the acknowledge
\* of the IRL line clears the pending bits it reports
hp64k_irq_callback_auto_clear(w, irqline) ==
    IF irqline = "HPHYBRID_IRL"
    THEN hp64k_update_irl(
             [ w EXCEPT !.io.ret = 65280 + AND8(w.hp.m_irl_mask, w.hp.m_irl_pending),
                        !.hp.m_irl_pending = @ - AND8(w.hp.m_irl_mask, @) ])
    ELSE [ w EXCEPT !.io.ret = -1 ]

hp64k_irq_callback(w, irqline) ==
    IF irqline = "HPHYBRID_IRL"
    THEN [ w EXCEPT !.io.ret = 65280 + AND8(w.hp.m_irl_mask, w.hp.m_irl_pending) ]
    ELSE [ w EXCEPT !.io.ret = -1 ]

\* a variant of hp64k_irl_mask_w, not part of the model: the mask is stored
\* and the line is left as it is
hp64k_irl_mask_w_no_update(w, data) == [ w EXCEPT !.hp.m_irl_mask = LSB(data) ]

hp64k_irl_mask_w(w, data) ==
    hp64k_update_irl([ w EXCEPT !.hp.m_irl_mask = LSB(data) ])

hp64k_update_floppy_irq(w) ==
    LET st1 == IF w.hp.m_floppy_dmai
               THEN BIT_SET(w.hp.m_floppy_status, 6)
               ELSE BIT_CLR(w.hp.m_floppy_status, 6)
        st2 == IF w.hp.m_floppy_mdci THEN BIT_SET(st1, 7) ELSE BIT_CLR(st1, 7)
        ir4 == \/ w.hp.m_floppy_dmai
               \/ w.hp.m_floppy_mdci
               \/ (BIT(st2, 2) /\ ~BIT(w.hp.m_floppy_drv_ctrl, 0))
               \/ (BIT(st2, 5) /\ ~BIT(w.hp.m_floppy_drv_ctrl, 3))
    IN  hp64k_update_irl(
            [ w EXCEPT !.hp.m_floppy_status = st2,
                       !.hp.m_irl_pending =
                           IF ir4 THEN BIT_SET(@, 4) ELSE BIT_CLR(@, 4) ])

\* a variant of hp64k_flp_intrq_w, not part of the model: the end of an FDC
\* command switches DMA off
hp64k_flp_intrq_w_dma_off(w, state) ==
    LET w1 == IF state # 0 /\ ~w.hp.m_floppy_intrq /\ ~BIT(w.hp.m_floppy_if_ctrl, 7)
              THEN hp64k_update_floppy_irq(
                       [ w EXCEPT !.hp.m_floppy_mdci = TRUE,
                                  !.hp.m_floppy_dmaen = FALSE ])
              ELSE w
    IN  [ w1 EXCEPT !.hp.m_floppy_intrq = (state # 0) ]

\* a variant of hp64k_flp_intrq_w, not part of the model: the interrupt is
\* latched whatever bit 7 of the control register is
hp64k_flp_intrq_w_ungated(w, state) ==
    LET w1 == IF state # 0 /\ ~w.hp.m_floppy_intrq
              THEN hp64k_update_floppy_irq([ w EXCEPT !.hp.m_floppy_mdci = TRUE ])
              ELSE w
    IN  [ w1 EXCEPT !.hp.m_floppy_intrq = (state # 0) ]

\* a variant of hp64k_flp_intrq_w, not part of the model: the interrupt is
\* latched from the level of the line, not from its rising edge
hp64k_flp_intrq_w_level(w, state) ==
    LET w1 == IF state # 0 /\ ~BIT(w.hp.m_floppy_if_ctrl, 7)
              THEN hp64k_update_floppy_irq([ w EXCEPT !.hp.m_floppy_mdci = TRUE ])
              ELSE w
    IN  [ w1 EXCEPT !.hp.m_floppy_intrq = (state # 0) ]

hp64k_flp_intrq_w(w, state) ==
    LET w1 == IF state # 0 /\ ~w.hp.m_floppy_intrq /\ ~BIT(w.hp.m_floppy_if_ctrl, 7)
              THEN hp64k_update_floppy_irq([ w EXCEPT !.hp.m_floppy_mdci = TRUE ])
              ELSE w
    IN  [ w1 EXCEPT !.hp.m_floppy_intrq = (state # 0) ]

(***************************************************************************)
(* The FDC (FD1791) seen from the driver.  What the FDC does inside a call *)
(* is given by e:                                                          *)
(*   e.val   the byte its register read returns                            *)
(*   e.drop  whether it drops DRQ (calls hp64k_flp_drq_w(0)) when its data *)
(*           register is accessed                                          *)
(*   e.cb    the line callback it makes from inside soft_reset(), write(), *)
(*           read() or index_callback()                                    *)
(***************************************************************************)
\* hp64k_flp_drq_w(0) re-entered from the FDC: m_floppy_drq = 0 makes the
\* guard of hp64k_update_floppy_dma false
flp_drq_dropped(w) == [ w EXCEPT !.hp.m_floppy_drq = FALSE ]

\* m_fdc->data_r()
fdc_data_r(w, e) ==
    LET w1 == [ w EXCEPT !.io.fdc_io = Append(@, << "data_r", e.val >>) ]
    IN  IF e.drop THEN flp_drq_dropped(w1) ELSE w1

\* m_fdc->data_w(val)
fdc_data_w(w, val, e) ==
    LET w1 == [ w EXCEPT !.io.fdc_io = Append(@, << "data_w", val >>) ]
    IN  IF e.drop THEN flp_drq_dropped(w1) ELSE w1

(***************************************************************************)
(* Variants of the sequencer that differ from the driver in one place.     *)
(* They are not part of the model: each shows that a property checked      *)
(* below depends on the place it changes.                                  *)
(***************************************************************************)
\* the second byte of a DMA read is latched without requesting the CPU
hp64k_update_floppy_dma_rd_no_dmar(w, e) ==
    IF w.hp.m_floppy_drq
       /\ (w.hp.m_floppy_dmaen \/ w.hp.m_floppy_if_state # HP64K_FLPST_IDLE)
    THEN CASE w.hp.m_floppy_if_state = HP64K_FLPST_IDLE ->
                IF BIT(w.hp.m_floppy_if_ctrl, 6)
                THEN set_if_state(dmar_w(w, 1), HP64K_FLPST_DMAWR1)
                ELSE set_if_state(
                         [ fdc_data_r(w, e) EXCEPT
                               !.hp.m_floppy_out_latch_msb = NOT8(e.val) ],
                         HP64K_FLPST_DMARD1)
           [] w.hp.m_floppy_if_state = HP64K_FLPST_DMAWR2 ->
                set_if_state(
                    fdc_data_w(w, NOT8(w.hp.m_floppy_in_latch_lsb), e),
                    HP64K_FLPST_IDLE)
           [] w.hp.m_floppy_if_state = HP64K_FLPST_DMARD1 ->
                set_if_state(
                    [ fdc_data_r(w, e) EXCEPT
                          !.hp.m_floppy_out_latch_lsb = NOT8(e.val) ],
                    HP64K_FLPST_DMARD2)
           [] OTHER ->
                logerror(w, "DRQ with floppy state")
    ELSE w

\* a DRQ that finds the CPU request pending asserts the request again
hp64k_update_floppy_dma_retry(w, e) ==
    IF w.hp.m_floppy_drq
       /\ (w.hp.m_floppy_dmaen \/ w.hp.m_floppy_if_state # HP64K_FLPST_IDLE)
    THEN CASE w.hp.m_floppy_if_state = HP64K_FLPST_IDLE ->
                IF BIT(w.hp.m_floppy_if_ctrl, 6)
                THEN set_if_state(dmar_w(w, 1), HP64K_FLPST_DMAWR1)
                ELSE set_if_state(
                         [ fdc_data_r(w, e) EXCEPT
                               !.hp.m_floppy_out_latch_msb = NOT8(e.val) ],
                         HP64K_FLPST_DMARD1)
           [] w.hp.m_floppy_if_state = HP64K_FLPST_DMAWR2 ->
                set_if_state(
                    fdc_data_w(w, NOT8(w.hp.m_floppy_in_latch_lsb), e),
                    HP64K_FLPST_IDLE)
           [] w.hp.m_floppy_if_state = HP64K_FLPST_DMARD1 ->
                set_if_state(
                    dmar_w([ fdc_data_r(w, e) EXCEPT
                                 !.hp.m_floppy_out_latch_lsb = NOT8(e.val) ], 1),
                    HP64K_FLPST_DMARD2)
           [] OTHER ->
                dmar_w(logerror(w, "DRQ with floppy state"), 1)
    ELSE w

\* the direction bit is looked at in every state, not only in IDLE
hp64k_update_floppy_dma_dir_any(w, e) ==
    IF w.hp.m_floppy_drq
       /\ (w.hp.m_floppy_dmaen \/ w.hp.m_floppy_if_state # HP64K_FLPST_IDLE)
    THEN CASE w.hp.m_floppy_if_state = HP64K_FLPST_IDLE ->
                IF BIT(w.hp.m_floppy_if_ctrl, 6)
                THEN set_if_state(dmar_w(w, 1), HP64K_FLPST_DMAWR1)
                ELSE set_if_state(
                         [ fdc_data_r(w, e) EXCEPT
                               !.hp.m_floppy_out_latch_msb = NOT8(e.val) ],
                         HP64K_FLPST_DMARD1)
           [] w.hp.m_floppy_if_state = HP64K_FLPST_DMAWR2
              /\ BIT(w.hp.m_floppy_if_ctrl, 6) ->
                set_if_state(
                    fdc_data_w(w, NOT8(w.hp.m_floppy_in_latch_lsb), e),
                    HP64K_FLPST_IDLE)
           [] w.hp.m_floppy_if_state = HP64K_FLPST_DMAWR2
              /\ ~BIT(w.hp.m_floppy_if_ctrl, 6) ->
                set_if_state(
                    dmar_w([ fdc_data_r(w, e) EXCEPT
                                 !.hp.m_floppy_out_latch_lsb = NOT8(e.val) ], 1),
                    HP64K_FLPST_DMARD2)
           [] w.hp.m_floppy_if_state = HP64K_FLPST_DMARD1 ->
                set_if_state(
                    dmar_w([ fdc_data_r(w, e) EXCEPT
                                 !.hp.m_floppy_out_latch_lsb = NOT8(e.val) ], 1),
                    HP64K_FLPST_DMARD2)
           [] OTHER ->
                logerror(w, "DRQ with floppy state")
    ELSE w

(***************************************************************************)
(* Floppy DMA sequencer.                                                   *)
(***************************************************************************)
hp64k_update_floppy_dma(w, e) ==
    IF w.hp.m_floppy_drq
       /\ (w.hp.m_floppy_dmaen \/ w.hp.m_floppy_if_state # HP64K_FLPST_IDLE)
    THEN CASE w.hp.m_floppy_if_state = HP64K_FLPST_IDLE ->
                IF BIT(w.hp.m_floppy_if_ctrl, 6)
                THEN \* DMA writes
                     set_if_state(dmar_w(w, 1), HP64K_FLPST_DMAWR1)
                ELSE \* DMA reads
                     set_if_state(
                         [ fdc_data_r(w, e) EXCEPT
                               !.hp.m_floppy_out_latch_msb = NOT8(e.val) ],
                         HP64K_FLPST_DMARD1)
           [] w.hp.m_floppy_if_state = HP64K_FLPST_DMAWR2 ->
                set_if_state(
                    fdc_data_w(w, NOT8(w.hp.m_floppy_in_latch_lsb), e),
                    HP64K_FLPST_IDLE)
           [] w.hp.m_floppy_if_state = HP64K_FLPST_DMARD1 ->
                set_if_state(
                    dmar_w([ fdc_data_r(w, e) EXCEPT
                                 !.hp.m_floppy_out_latch_lsb = NOT8(e.val) ], 1),
                    HP64K_FLPST_DMARD2)
           [] OTHER ->
                logerror(w, "DRQ with floppy state")
    ELSE w

\* a variant of hp64k_flp_drq_w, not part of the model: the sequencer runs
\* on a DRQ whether DMA is enabled or not
hp64k_flp_drq_w_any_enable(w, state, e) ==
    [ hp64k_update_floppy_dma([ w EXCEPT !.hp.m_floppy_drq = (state # 0),
                                         !.hp.m_floppy_dmaen = TRUE ], e)
        EXCEPT !.hp.m_floppy_dmaen = w.hp.m_floppy_dmaen ]

hp64k_flp_drq_w(w, state, e) ==
    hp64k_update_floppy_dma([ w EXCEPT !.hp.m_floppy_drq = (state # 0) ], e)

\* a line callback made by the FDC from inside one of its register calls
\* the members of the floppy interface a callback of the FDC finds
if_regs(h) ==
    [ ctrl |-> h.m_floppy_if_ctrl, dmaen |-> h.m_floppy_dmaen,
      dmai |-> h.m_floppy_dmai, mdci |-> h.m_floppy_mdci ]

\* the FDC changes DRQ or INTRQ before its function returns: the callback
\* of the driver runs inside the call
fdc_callback(w, cb, e) ==
    LET w1 == [ w EXCEPT !.io.seen = Append(@, if_regs(w.hp)) ]
    IN  CASE cb = "drq0"   -> hp64k_flp_drq_w(w1, 0, e)
          [] cb = "drq1"   -> hp64k_flp_drq_w(w1, 1, e)
          [] cb = "intrq0" -> hp64k_flp_intrq_w(w1, 0)
          [] cb = "intrq1" -> hp64k_flp_intrq_w(w1, 1)
          [] OTHER         -> w

\* m_fdc->soft_reset()
fdc_soft_reset(w, e) ==
    fdc_callback([ w EXCEPT !.io.fdc_io = Append(@, << "soft_reset" >>) ], e.cb, e)

\* m_fdc->write(reg, val)
fdc_write(w, reg, val, e) ==
    fdc_callback([ w EXCEPT !.io.fdc_io = Append(@, << "write", reg, val >>) ], e.cb, e)

\* m_fdc->read(reg)
fdc_read(w, reg, e) ==
    fdc_callback([ w EXCEPT !.io.fdc_io = Append(@, << "read", reg, e.val >>) ], e.cb, e)

(***************************************************************************)
(* Drive control register.                                                 *)
(***************************************************************************)
hp64k_update_drv_ctrl(w) ==
    LET dc == w.hp.m_floppy_drv_ctrl
        s1 == IF BIT(dc, 2) THEN BIT_CLR(w.hp.m_floppy_status, 2)
                            ELSE w.hp.m_floppy_status
        s2 == IF BIT(dc, 5) THEN BIT_CLR(s1, 5) ELSE s1
        w1 == hp64k_update_floppy_irq([ w EXCEPT !.hp.m_floppy_status = s2 ])
        new_drive == IF ~BIT(dc, 3) THEN "floppy1"
                     ELSE IF ~BIT(dc, 0) THEN "floppy0"
                     ELSE "nullptr"
    IN  IF new_drive # w1.hp.m_current_floppy
        THEN \* setup_index_pulse_cb / setup_wpt_cb on both drives
             [ w1 EXCEPT !.drv.cb_set = TRUE, !.hp.m_current_floppy = new_drive ]
        ELSE w1

\* a variant of hp64k_flp_r, not part of the model: a read of IC=2 ends the
\* DMA cycle as a read of IC=0 does, without the terminal-count bookkeeping
hp64k_flp_r_no_tc(w, offset) ==
    LET w0 == dmar_w(w, 0)
        w1 == CASE offset \in { 0, 2 } ->
                     IF w0.hp.m_floppy_if_state = HP64K_FLPST_DMARD2
                     THEN set_if_state(w0, HP64K_FLPST_IDLE)
                     ELSE logerror(w0, "Read from IC=0 with floppy state")
                [] offset = 1 ->
                     IF w0.hp.m_floppy_if_state # HP64K_FLPST_IDLE
                     THEN logerror(w0, "read from IC=1 with floppy state")
                     ELSE w0
                [] OTHER ->
                     logerror(w0, "read from IC=")
        w2 == hp64k_update_floppy_irq(w1)
    IN  [ w2 EXCEPT !.io.ret = w2.hp.m_floppy_out_latch_msb * 256
                               + w2.hp.m_floppy_out_latch_lsb ]

\* a variant of hp64k_flp_r, not part of the model: bits 15-8 of the word
\* returned are the status register as it is at the time of the read
hp64k_flp_r_status(w, offset) ==
    LET w0 == dmar_w(w, 0)
        w1 == CASE offset = 0 ->
                     \* DMA transfer, not at TC
                     IF w0.hp.m_floppy_if_state = HP64K_FLPST_DMARD2
                     THEN set_if_state(w0, HP64K_FLPST_IDLE)
                     ELSE logerror(w0, "Read from IC=0 with floppy state")
                [] offset = 1 ->
                     IF w0.hp.m_floppy_if_state # HP64K_FLPST_IDLE
                     THEN logerror(w0, "read from IC=1 with floppy state")
                     ELSE w0
                [] offset = 2 ->
                     \* DMA transfer, at TC
                     IF w0.hp.m_floppy_if_state = HP64K_FLPST_DMARD2
                     THEN [ set_if_state(w0, HP64K_FLPST_IDLE) EXCEPT
                                !.hp.m_floppy_dmaen = FALSE,
                                !.hp.m_floppy_dmai = TRUE ]
                     ELSE logerror(w0, "Read from IC=2 with floppy state")
                [] OTHER ->
                     logerror(w0, "read from IC=")
        w2 == hp64k_update_floppy_irq(w1)
    IN  [ w2 EXCEPT !.io.ret = w2.hp.m_floppy_status * 256
                               + w2.hp.m_floppy_out_latch_lsb ]

(***************************************************************************)
(* Floppy I/F registers (PA = 4, IC = offset).                             *)
(***************************************************************************)
hp64k_flp_r(w, offset) ==
    LET w0 == dmar_w(w, 0)
        w1 == CASE offset = 0 ->
                     \* DMA transfer, not at TC
                     IF w0.hp.m_floppy_if_state = HP64K_FLPST_DMARD2
                     THEN set_if_state(w0, HP64K_FLPST_IDLE)
                     ELSE logerror(w0, "Read from IC=0 with floppy state")
                [] offset = 1 ->
                     IF w0.hp.m_floppy_if_state # HP64K_FLPST_IDLE
                     THEN logerror(w0, "read from IC=1 with floppy state")
                     ELSE w0
                [] offset = 2 ->
                     \* DMA transfer, at TC
                     IF w0.hp.m_floppy_if_state = HP64K_FLPST_DMARD2
                     THEN [ set_if_state(w0, HP64K_FLPST_IDLE) EXCEPT
                                !.hp.m_floppy_dmaen = FALSE,
                                !.hp.m_floppy_dmai = TRUE ]
                     ELSE logerror(w0, "Read from IC=2 with floppy state")
                [] OTHER ->
                     logerror(w0, "read from IC=")
        w2 == hp64k_update_floppy_irq(w1)
    IN  [ w2 EXCEPT !.io.ret = w2.hp.m_floppy_out_latch_msb * 256
                               + w2.hp.m_floppy_out_latch_lsb ]

\* case 1 of hp64k_flp_w: the I/F control register
hp64k_flp_w_ctrl(w, e) ==
    LET w1 == IF w.hp.m_floppy_if_state # HP64K_FLPST_IDLE
              THEN logerror(w, "write to IC=1 with floppy state")
              ELSE w
        w2 == [ w1 EXCEPT !.hp.m_floppy_if_ctrl = w1.hp.m_floppy_in_latch_msb ]
        ctrl == w2.hp.m_floppy_if_ctrl
        \* FDC reset
        w3 == IF BIT(ctrl, 4) THEN fdc_soft_reset(w2, e) ELSE w2
        \* Interrupt reset
        w4 == IF BIT(ctrl, 7)
              THEN [ w3 EXCEPT !.hp.m_floppy_dmai = FALSE, !.hp.m_floppy_mdci = FALSE ]
              ELSE w3
        w5 == IF BIT(ctrl, 3)
              THEN \* Write (to either FDC or drive control)
                   IF BIT(ctrl, 2)
                   THEN fdc_write(w4, 3 - (ctrl % 4),
                                  NOT8(w4.hp.m_floppy_in_latch_lsb), e)
                   ELSE hp64k_update_drv_ctrl(
                            [ w4 EXCEPT !.hp.m_floppy_drv_ctrl =
                                            w4.hp.m_floppy_in_latch_lsb ])
              ELSE \* Read
                   IF BIT(ctrl, 2)
                   THEN [ fdc_read(w4, 3 - (ctrl % 4), e) EXCEPT
                              !.hp.m_floppy_out_latch_lsb = NOT8(e.val) ]
                   ELSE [ w4 EXCEPT !.hp.m_floppy_out_latch_lsb =
                                        w4.hp.m_floppy_drv_ctrl ]
        \* MSB of output latch is always filled with status register
        w6 == [ w5 EXCEPT !.hp.m_floppy_out_latch_msb = w5.hp.m_floppy_status,
                          !.hp.m_floppy_dmaen = BIT(ctrl, 5) ]
    IN  hp64k_update_floppy_dma(w6, e)

\* a variant of hp64k_flp_w, not part of the model: a write of IC=3 returns
\* before the DMA request is taken back
hp64k_flp_w_ic3_returns(w, offset, data, e) ==
    LET w0 == dmar_w(w, 0)
        w1 == [ w0 EXCEPT !.hp.m_floppy_in_latch_msb = MSB(data),
                          !.hp.m_floppy_in_latch_lsb = LSB(data) ]
        w2 == CASE offset = 0 ->
                     \* DMA transfer, not at TC
                     IF w1.hp.m_floppy_if_state = HP64K_FLPST_DMAWR1
                     THEN set_if_state(
                              fdc_data_w(w1, NOT8(w1.hp.m_floppy_in_latch_msb), e),
                              HP64K_FLPST_DMAWR2)
                     ELSE logerror(w1, "write to IC=0 with floppy state")
                [] offset = 1 ->
                     hp64k_flp_w_ctrl(w1, e)
                [] offset = 2 ->
                     \* DMA transfer, at TC
                     IF w1.hp.m_floppy_if_state = HP64K_FLPST_DMAWR1
                     THEN [ set_if_state(
                                fdc_data_w(w1, NOT8(w1.hp.m_floppy_in_latch_msb), e),
                                HP64K_FLPST_DMAWR2) EXCEPT
                                !.hp.m_floppy_dmaen = FALSE,
                                !.hp.m_floppy_dmai = TRUE ]
                     ELSE logerror(w1, "write to IC=2 with floppy state")
                [] OTHER -> w1
    IN  IF offset = 3 THEN w ELSE hp64k_update_floppy_irq(w2)

hp64k_flp_w(w, offset, data, e) ==
    LET w0 == dmar_w(w, 0)
        w1 == [ w0 EXCEPT !.hp.m_floppy_in_latch_msb = MSB(data),
                          !.hp.m_floppy_in_latch_lsb = LSB(data) ]
        w2 == CASE offset = 0 ->
                     \* DMA transfer, not at TC
                     IF w1.hp.m_floppy_if_state = HP64K_FLPST_DMAWR1
                     THEN set_if_state(
                              fdc_data_w(w1, NOT8(w1.hp.m_floppy_in_latch_msb), e),
                              HP64K_FLPST_DMAWR2)
                     ELSE logerror(w1, "write to IC=0 with floppy state")
                [] offset = 1 ->
                     hp64k_flp_w_ctrl(w1, e)
                [] offset = 2 ->
                     \* DMA transfer, at TC
                     IF w1.hp.m_floppy_if_state = HP64K_FLPST_DMAWR1
                     THEN [ set_if_state(
                                fdc_data_w(w1, NOT8(w1.hp.m_floppy_in_latch_msb), e),
                                HP64K_FLPST_DMAWR2) EXCEPT
                                !.hp.m_floppy_dmaen = FALSE,
                                !.hp.m_floppy_dmai = TRUE ]
                     ELSE logerror(w1, "write to IC=2 with floppy state")
                [] OTHER -> w1
    IN  IF offset = 3 THEN w0 ELSE hp64k_update_floppy_irq(w2)

(***************************************************************************)
(* Drive callbacks.                                                        *)
(***************************************************************************)
hp64k_floppy0_rdy(w, state) ==
    [ w EXCEPT !.hp.m_floppy_status = IF state # 0 THEN BIT_CLR(@, 0) ELSE BIT_SET(@, 0) ]

hp64k_floppy1_rdy(w, state) ==
    [ w EXCEPT !.hp.m_floppy_status = IF state # 0 THEN BIT_CLR(@, 3) ELSE BIT_SET(@, 3) ]

\* m_ss0->a_w() / m_ss1->a_w() only arm the one-shots; the FDC gets the pulse
\* of the selected drive and may answer with a line callback
hp64k_floppy_idx_cb(w, floppy, state, e) ==
    IF floppy = w.hp.m_current_floppy
    THEN fdc_callback(
             [ w EXCEPT !.io.fdc_io = Append(@, << "index_callback", state >>) ],
             e.cb, e)
    ELSE w

hp64k_floppy_wpt_cb(w, floppy, state) ==
    IF floppy = "floppy0"
    THEN LET w1 == logerror(w, "floppy0_wpt")
             w2 == IF w1.hp.m_floppy0_wpt /\ state = 0
                   THEN hp64k_update_floppy_irq(
                            [ w1 EXCEPT !.hp.m_floppy_status = BIT_SET(@, 2) ])
                   ELSE w1
         IN  [ w2 EXCEPT !.hp.m_floppy_status =
                             IF state # 0 THEN BIT_SET(@, 1) ELSE BIT_CLR(@, 1),
                         !.hp.m_floppy0_wpt = (state # 0) ]
    ELSE IF floppy = "floppy1"
    THEN LET w1 == logerror(w, "floppy1_wpt")
             w2 == IF w1.hp.m_floppy1_wpt /\ state = 0
                   THEN hp64k_update_floppy_irq(
                            [ w1 EXCEPT !.hp.m_floppy_status = BIT_SET(@, 5) ])
                   ELSE w1
         IN  [ w2 EXCEPT !.hp.m_floppy_status =
                             IF state # 0 THEN BIT_SET(@, 4) ELSE BIT_CLR(@, 4),
                         !.hp.m_floppy1_wpt = (state # 0) ]
    ELSE w

(***************************************************************************)
(* Keyboard, line sync and the other interrupt sources.                    *)
(***************************************************************************)
\* the row/column position reached after i increments of m_kb_row_col
kb_next(row_col, i) == (row_col + i) % 128

\* (input[ idx ] ^ m_kb_state[ idx ]) & mask at position p
kb_changed(w, input, p) == (p \in input) # (p \in w.hp.m_kb_state)

\* a variant of hp64k_kb_scan, not part of the model: the matrix is scanned
\* also while a key event waits to be read
hp64k_kb_scan_free(w, input) ==
    LET hits == { i \in 1..128 : kb_changed(w, input, kb_next(w.hp.m_kb_row_col, i)) }
    IN  IF hits = {}
        THEN [ w EXCEPT !.hp.m_kb_row_col = kb_next(@, 128) ]
        ELSE LET i == CHOOSE j \in hits : \A k \in hits : j <= k
                 p == kb_next(w.hp.m_kb_row_col, i)
                 st == IF p \in w.hp.m_kb_state
                       THEN w.hp.m_kb_state \ { p }
                       ELSE w.hp.m_kb_state \cup { p }
             IN  hp64k_update_irl(
                     [ w EXCEPT !.hp.m_kb_row_col = p,
                                !.hp.m_kb_state = st,
                                !.hp.m_kb_pressed = (p \in st),
                                !.hp.m_kb_scan_on = FALSE,
                                !.hp.m_irl_pending = BIT_SET(@, 0) ])

hp64k_kb_scan(w, input) ==
    IF w.hp.m_kb_scan_on
    THEN LET hits == { i \in 1..128 : kb_changed(w, input, kb_next(w.hp.m_kb_row_col, i)) }
         IN  IF hits = {}
             THEN [ w EXCEPT !.hp.m_kb_row_col = kb_next(@, 128) ]
             ELSE LET i == CHOOSE j \in hits : \A k \in hits : j <= k
                      p == kb_next(w.hp.m_kb_row_col, i)
                      st == IF p \in w.hp.m_kb_state
                            THEN w.hp.m_kb_state \ { p }
                            ELSE w.hp.m_kb_state \cup { p }
                  IN  \* key changed state
                      hp64k_update_irl(
                          [ w EXCEPT !.hp.m_kb_row_col = p,
                                     !.hp.m_kb_state = st,
                                     !.hp.m_kb_pressed = (p \in st),
                                     !.hp.m_kb_scan_on = FALSE,
                                     !.hp.m_irl_pending = BIT_SET(@, 0) ])
    ELSE w

\* a variant of hp64k_kb_r, not part of the model: the read takes the
\* interrupt back and leaves the scan switched off
hp64k_kb_r_no_rearm(w) ==
    LET ret == 65280 + w.hp.m_kb_row_col
    IN  hp64k_update_irl(
            [ w EXCEPT !.io.ret = IF w.hp.m_kb_pressed THEN BIT_SET(ret, 7) ELSE ret,
                       !.hp.m_irl_pending = BIT_CLR(@, 0) ])

hp64k_kb_r(w) ==
    LET ret == 65280 + w.hp.m_kb_row_col
    IN  hp64k_update_irl(
            [ w EXCEPT !.io.ret = IF w.hp.m_kb_pressed THEN BIT_SET(ret, 7) ELSE ret,
                       !.hp.m_kb_scan_on = TRUE,
                       !.hp.m_irl_pending = BIT_CLR(@, 0) ])

hp64k_line_sync(w) ==
    hp64k_update_irl([ w EXCEPT !.hp.m_irl_pending = BIT_SET(@, 2) ])

hp64k_deltat_r(w) ==
    [ hp64k_update_irl([ w EXCEPT !.hp.m_irl_pending = BIT_CLR(@, 2) ])
        EXCEPT !.io.ret = 0 ]

hp64k_deltat_w(w) ==
    hp64k_update_irl([ w EXCEPT !.hp.m_irl_pending = BIT_CLR(@, 2) ])

hp64k_slot_sel_w(w, offset, data) ==
    [ w EXCEPT !.hp.m_slot_map = offset % 256,
               !.hp.m_slot_select = (data \div 256) % 64 ]

hp64k_rxrdy_w(w, state) ==
    hp64k_update_irl(
        [ w EXCEPT !.hp.m_irl_pending =
              IF state # 0 THEN BIT_SET(@, 6) ELSE BIT_CLR(@, 6) ])

hp64k_txrdy_w(w, state) ==
    hp64k_update_irl(
        [ w EXCEPT !.hp.m_irl_pending =
              IF state # 0 THEN BIT_SET(@, 5) ELSE BIT_CLR(@, 5) ])

hp64k_phi_int_w(w, state) ==
    hp64k_update_irl(
        [ w EXCEPT !.hp.m_irl_pending =
              IF state # 0 THEN BIT_SET(@, 7) ELSE BIT_CLR(@, 7) ])

(***************************************************************************)
(* RS232 I/F: the lines between the USART and the RS232 port, and the      *)
(* loopback relay.                                                         *)
(***************************************************************************)
\* a bool member passed as the state of a line
LineOf(b) == IF b THEN 1 ELSE 0

\* m_uart->write_rxd / write_dsr / write_cts (state)
uart_write(w, input, state) ==
    [ w EXCEPT !.drv.uart[input] = state,
               !.io.line_calls = Append(@, << "uart", input, state >>) ]

\* m_rs232->write_txd / write_dtr / write_rts (state)
rs232_write(w, input, state) ==
    [ w EXCEPT !.drv.rs232[input] = state,
               !.io.line_calls = Append(@, << "rs232", input, state >>) ]

hp64k_txd_w(w, state) ==
    LET w1 == [ w EXCEPT !.hp.m_txd_state = (state # 0) ]
        w2 == IF w1.hp.m_loopback THEN uart_write(w1, "rxd", state) ELSE w1
    IN  rs232_write(w2, "txd", state)

hp64k_dtr_w(w, state) ==
    LET w1 == [ w EXCEPT !.hp.m_dtr_state = (state # 0) ]
        w2 == IF w1.hp.m_loopback THEN uart_write(w1, "dsr", state) ELSE w1
    IN  rs232_write(w2, "dtr", state)

\* s5_sw is what m_s5_sw->read() returns
hp64k_rts_w(w, state0, s5_sw) ==
    LET \* Full duplex, RTS/ = 0
        state == IF BIT(s5_sw, 0) THEN 0 ELSE state0
        w1 == [ w EXCEPT !.hp.m_rts_state = (state # 0) ]
        w2 == IF w1.hp.m_loopback THEN uart_write(w1, "cts", state) ELSE w1
    IN  rs232_write(w2, "rts", state)

\* a variant of hp64k_update_loopback, not part of the model: the relay
\* delivers nothing when it closes
hp64k_update_loopback_late(w) ==
    IF w.hp.m_loopback
    THEN w
    ELSE uart_write(uart_write(uart_write(w, "rxd", w.drv.rs232.rxd),
                               "dsr", w.drv.rs232.dcd),
                    "cts", w.drv.rs232.cts)

hp64k_update_loopback(w) ==
    IF w.hp.m_loopback
    THEN uart_write(uart_write(uart_write(w, "rxd", LineOf(w.hp.m_txd_state)),
                               "dsr", LineOf(w.hp.m_dtr_state)),
                    "cts", LineOf(w.hp.m_rts_state))
    ELSE uart_write(uart_write(uart_write(w, "rxd", w.drv.rs232.rxd),
                               "dsr", w.drv.rs232.dcd),
                    "cts", w.drv.rs232.cts)

hp64k_loopback_w(w, data) ==
    hp64k_update_loopback(
        [ w EXCEPT !.hp.m_phi_reg = (data \div 256) % 8,
                   !.hp.m_loopback = BIT(data, 11) ])

\* the port drives one of its lines low or high and calls the driver
hp64k_rs232_rxd_w(w, state) ==
    LET w1 == [ w EXCEPT !.drv.rs232.rxd = state ]
    IN  IF ~w1.hp.m_loopback THEN uart_write(w1, "rxd", state) ELSE w1

hp64k_rs232_dcd_w(w, state) ==
    LET w1 == [ w EXCEPT !.drv.rs232.dcd = state ]
    IN  IF ~w1.hp.m_loopback THEN uart_write(w1, "dsr", state) ELSE w1

hp64k_rs232_cts_w(w, state) ==
    LET w1 == [ w EXCEPT !.drv.rs232.cts = state ]
    IN  IF ~w1.hp.m_loopback THEN uart_write(w1, "cts", state) ELSE w1

\* the most timers registered besides those of the machine configuration
MaxTimers == 2

\* the last time the machine is run up to, in ticks
MaxTime == 300

\* how far behind its fire time a callback runs at most, in ticks
MaxLate == 2

(***************************************************************************)
(* The scheduler.  Time is counted in ticks: a millisecond for the hp64k   *)
(* and the dw_keyboard, a scanline for the konmedal68k.                    *)
(***************************************************************************)
\* the scheduler of a machine that has registered no timer yet
sch_start == [ now |-> 0, timers |-> << >>, fired |-> << >> ]

\* a delay as the scheduler takes it: a negative one is clamped to zero
clamp_delay(delay) == IF delay < 0 THEN 0 ELSE delay

\* a timer entry armed to fire at time fire: one-shot when its period is 0;
\* first is the fire time it was armed with and count its firings since
TimerEntry(cb, param, fire, period) ==
    [ cb |-> cb, param |-> param, fire |-> fire, period |-> period,
      enabled |-> TRUE, first |-> fire, count |-> 0 ]

\* timer_alloc(): a timer that is registered but not armed
timer_alloc(w, cb) ==
    [ w EXCEPT !.sch.timers =
          Append(@, [ TimerEntry(cb, 0, w.sch.now, 0) EXCEPT !.enabled = FALSE ]) ]

\* register(payload, delay, period): the handle is the position of the entry
timer_register(w, cb, param, delay, period) ==
    [ w EXCEPT !.sch.timers =
          Append(@, TimerEntry(cb, param, w.sch.now + clamp_delay(delay), period)) ]

\* the handle of the timer that calls cb, 0 when there is none
timer_handle(w, cb) ==
    IF \E h \in DOMAIN w.sch.timers : w.sch.timers[h].cb = cb
    THEN CHOOSE h \in DOMAIN w.sch.timers : w.sch.timers[h].cb = cb
    ELSE 0

\* cancel(handle): the timer is not to fire; the entry stays in its place, so
\* that the handles of the other timers keep their meaning
timer_cancel(w, h) ==
    IF h \in DOMAIN w.sch.timers /\ w.sch.timers[h].enabled
    THEN [ w EXCEPT !.sch.timers[h].enabled = FALSE ]
    ELSE w

\* adjust(handle, new_delay): the timer is armed again, as a one-shot
timer_adjust(w, h, delay) ==
    IF h \in DOMAIN w.sch.timers
    THEN LET fire == w.sch.now + clamp_delay(delay)
         IN  [ w EXCEPT !.sch.timers[h] =
                   [ @ EXCEPT !.fire = fire, !.period = 0, !.enabled = TRUE,
                              !.first = fire, !.count = 0 ] ]
    ELSE w

\* adjust(handle, attotime::never)
timer_adjust_never(w, h) == timer_cancel(w, h)

\* the enabled timers with a fire time at or before target
due(s, target) ==
    { h \in DOMAIN s.timers : s.timers[h].enabled /\ s.timers[h].fire <= target }

\* the due timer fired next with a variant that takes the one registered last
\* among those of the earliest fire time
next_due_lifo(s, target) ==
    CHOOSE h \in due(s, target) :
        \A g \in due(s, target) :
            \/ s.timers[h].fire < s.timers[g].fire
            \/ s.timers[h].fire = s.timers[g].fire /\ h >= g

\* the due timer fired next: the earliest fire time first, and among the
\* timers of one fire time the one registered first
next_due(s, target) ==
    CHOOSE h \in due(s, target) :
        \A g \in due(s, target) :
            \/ s.timers[h].fire < s.timers[g].fire
            \/ s.timers[h].fire = s.timers[g].fire /\ h <= g

\* the time the callback of a timer due at fire runs, late ticks behind
ran_at(s, fire, target, late) ==
    LET t == IF fire + late > target THEN target ELSE fire + late
    IN  IF t < s.now THEN s.now ELSE t

\* the entry of a timer after firing with a variant that re-arms a periodic
\* timer from the time its callback ran
rearm_from_now(t, ran) ==
    IF t.period > 0
    THEN [ t EXCEPT !.fire = ran + t.period, !.count = @ + 1 ]
    ELSE [ t EXCEPT !.enabled = FALSE, !.count = @ + 1 ]

\* the entry of a timer after firing: a periodic timer is re-armed at its
\* scheduled fire time plus the period, a one-shot timer is not to fire again
rearm(t, ran) ==
    IF t.period > 0
    THEN [ t EXCEPT !.fire = @ + t.period, !.count = @ + 1 ]
    ELSE [ t EXCEPT !.enabled = FALSE, !.count = @ + 1 ]

\* the timer of handle h fires: the firing is recorded with its scheduled
\* time and the time its callback runs, and the entry is re-armed or retired
\* before the callback is entered
timer_fire(w, h, target, late) ==
    LET t == w.sch.timers[h]
        ran == ran_at(w.sch, t.fire, target, late)
    IN  [ w EXCEPT !.sch.now = ran,
                   !.sch.fired = Append(@, [ handle |-> h, cb |-> t.cb,
                                             param |-> t.param,
                                             at |-> t.fire, ran |-> ran ]),
                   !.sch.timers[h] = rearm(t, ran),
                   !.io = NoIo(t.cb, t.param) ]

(***************************************************************************)
(* The beeper.                                                             *)
(***************************************************************************)
\* m_beeper->set_state(state)
beeper_set_state(w, state) == [ w EXCEPT !.drv.beeper = state ]

\* hp64k_beep_w with a variant that turns the beeper on and leaves the timer
hp64k_beep_w_no_timer(w, offset) ==
    IF ~BIT(offset, 0) THEN beeper_set_state(w, 1) ELSE w

hp64k_beep_w(w, offset) ==
    IF ~BIT(offset, 0)
    THEN timer_adjust(beeper_set_state(w, 1),
                      timer_handle(w, "hp64k_beeper_off"), 130)
    ELSE w

hp64k_beeper_off(w) == beeper_set_state(w, 0)

(***************************************************************************)
(* Reset.  The members machine_reset() does not assign keep their value;   *)
(* the driver object is allocated zero-filled.                             *)
(***************************************************************************)
hp64k_state_alloc ==
    [ m_irl_mask |-> 0, m_irl_pending |-> 0,
      m_slot_select |-> 0, m_slot_map |-> 0,
      m_kb_state |-> {}, m_kb_row_col |-> 0,
      m_kb_scan_on |-> FALSE, m_kb_pressed |-> FALSE,
      m_floppy_in_latch_msb |-> 0, m_floppy_in_latch_lsb |-> 0,
      m_floppy_out_latch_msb |-> 0, m_floppy_out_latch_lsb |-> 0,
      m_floppy_if_ctrl |-> 0,
      m_floppy_dmaen |-> FALSE, m_floppy_dmai |-> FALSE,
      m_floppy_mdci |-> FALSE, m_floppy_intrq |-> FALSE,
      m_floppy_drq |-> FALSE,
      m_floppy0_wpt |-> FALSE, m_floppy1_wpt |-> FALSE,
      m_floppy_drv_ctrl |-> 0, m_floppy_status |-> 0,
      m_floppy_if_state |-> HP64K_FLPST_IDLE,
      m_current_floppy |-> "nullptr",
      m_loopback |-> FALSE, m_txd_state |-> FALSE, m_dtr_state |-> FALSE,
      m_rts_state |-> FALSE, m_phi_reg |-> 0 ]

machine_reset(w) ==
    set_if_state(
        [ w EXCEPT !.hp.m_irl_mask = 0,
                   !.hp.m_irl_pending = 0,
                   !.hp.m_kb_state = {},
                   !.hp.m_kb_row_col = 0,
                   !.hp.m_kb_scan_on = TRUE,
                   !.hp.m_slot_select = 0,
                   !.hp.m_slot_map = 3,
                   !.hp.m_floppy_if_ctrl = 255,
                   !.hp.m_floppy_dmaen = FALSE,
                   !.hp.m_floppy_dmai = FALSE,
                   !.hp.m_floppy_mdci = FALSE,
                   !.hp.m_floppy_intrq = FALSE,
                   !.hp.m_floppy_drv_ctrl = 255,
                   !.hp.m_current_floppy = "nullptr",
                   !.hp.m_floppy0_wpt = FALSE,
                   !.hp.m_floppy1_wpt = FALSE,
                   !.drv.beeper = 0,
                   !.hp.m_loopback = FALSE,
                   !.hp.m_txd_state = TRUE,
                   !.hp.m_dtr_state = TRUE,
                   !.hp.m_rts_state = TRUE,
                   !.hp.m_phi_reg = 0 ],
        HP64K_FLPST_IDLE)


(***************************************************************************)
(* Inputs.                                                                 *)
(***************************************************************************)
\* bytes returned by the FDC
FdcByte(i) == (165 * i) % 256

\* what the FDC does inside a call: the i-th behaviour returns the i-th byte
\* and drops DRQ on a data register access when i is odd
FdcEnv(cbs) ==
    { [ val |-> FdcByte(i), drop |-> (i % 2 = 1), cb |-> c ] :
          i \in 1..NFdcBytes, c \in cbs }

\* words written by the CPU to IC=0 / IC=2
CpuWords == { (4660 * i) % 65536 : i \in 1..NCpuWords }

Line == { 0, 1 }

(***************************************************************************)
(* crimfght: sound latch and audio CPU interrupt.                          *)
(*   snd.irq0       the state of the IRQ0 input line of the audio CPU      *)
(*   snd.soundlatch the byte held by the sound latch                       *)
(*   snd.iff1       whether the audio CPU has its interrupts enabled       *)
(*   snd.vector     the vector the audio CPU got when it last accepted an  *)
(*                  interrupt (-1: none yet)                               *)
(*   snd.acks       the number of calls of audiocpu_irq_ack so far         *)
(*   snd.writes     the number of calls of sound_w so far                  *)
(*   snd.op, .ret   the operation that ran last and what it returned       *)
(***************************************************************************)
CLEAR_LINE == "CLEAR_LINE"

ASSERT_LINE == "ASSERT_LINE"

INPUT_LINE_IRQ0 == "INPUT_LINE_IRQ0"

\* the number of writes of the sound latch explored
MaxSndWrites == 3

\* bytes written by the main CPU to the sound latch
SndBytes == { (83 * i) % 256 : i \in 1..MaxSndWrites }

snd_start ==
    [ irq0 |-> CLEAR_LINE, soundlatch |-> 0, iff1 |-> FALSE, vector |-> -1,
      acks |-> 0, writes |-> 0, op |-> "start", ret |-> -1 ]

\* m_audiocpu->set_input_line(line, state): the new state is delivered to the
\* CPU input before the call returns
set_input_line(s, line, state) ==
    IF line = INPUT_LINE_IRQ0 THEN [ s EXCEPT !.irq0 = state ] ELSE s

\* m_soundlatch->write(space, offset, data)
soundlatch_write(s, data) == [ s EXCEPT !.soundlatch = data % 256 ]

\* m_soundlatch->read(), mapped at 0xc000 of the audio CPU
soundlatch_read(s) == [ s EXCEPT !.ret = s.soundlatch ]

\* a variant of audiocpu_irq_ack, not part of the model: the acknowledge
\* cycle returns the vector and leaves the line asserted
audiocpu_irq_ack_no_clear(s) ==
    [ s EXCEPT !.acks = @ + 1, !.ret = 255 ]

audiocpu_irq_ack(s) ==
    \* irq ack cycle clears irq via flip-flop u86
    [ set_input_line(s, INPUT_LINE_IRQ0, CLEAR_LINE) EXCEPT
          !.acks = @ + 1, !.ret = 255 ]

sound_w(s, data) ==
    \* writing the latch asserts the irq line
    set_input_line(soundlatch_write(s, data), INPUT_LINE_IRQ0, ASSERT_LINE)

\* MCFG_DEVICE_IRQ_ACKNOWLEDGE_DEVICE: the acknowledge callback registered
\* on the audio CPU
audiocpu_irq_acknowledge(s) == audiocpu_irq_ack(s)

\* the audio CPU accepts the interrupt: it runs its acknowledge callback,
\* takes what the callback returns as the vector and disables interrupts
take_interrupt(s) ==
    LET s1 == audiocpu_irq_acknowledge(s)
    IN  [ s1 EXCEPT !.vector = s1.ret, !.iff1 = FALSE ]

(***************************************************************************)
(* crimfght: address space of the main CPU.                                *)
(*   bus.amap  the installed ranges, in the order of their installation    *)
(*   bus.rd    the last read: its address and the handler that answered    *)
(* A range is [start, end, mirror, r, w]; r / w name its read / write      *)
(* handler ("none" when it has none).                                      *)
(***************************************************************************)
map_entry(start, end, mirror, r, w) ==
    [ start |-> start, end |-> end, mirror |-> mirror, r |-> r, w |-> w ]

\* a variant of crimfght_map, not part of the model: the video range is
\* installed after the ports and the watchdog
crimfght_map_video_last ==
    << map_entry(0, 1023, 0, "bank0000", "bank0000"),
       map_entry(1024, 8191, 0, "ram", "ram"),
       map_entry(16256, 16256, 0, "SYSTEM", "none"),
       map_entry(16257, 16257, 0, "P1", "none"),
       map_entry(16258, 16258, 0, "P2", "none"),
       map_entry(16259, 16259, 0, "DSW2", "none"),
       map_entry(16260, 16260, 0, "DSW3", "none"),
       map_entry(16261, 16261, 0, "P3", "none"),
       map_entry(16262, 16262, 0, "P4", "none"),
       map_entry(16263, 16263, 0, "DSW1", "none"),
       map_entry(16264, 16264, 3, "watchdog", "crimfght_coin_w"),
       map_entry(16268, 16268, 3, "none", "sound_w"),
       map_entry(8192, 24575, 0, "k052109_051960_r", "k052109_051960_w"),
       map_entry(24576, 32767, 0, "rombank", "none"),
       map_entry(32768, 65535, 0, "rom", "none") >>

crimfght_map ==
    << map_entry(0, 1023, 0, "bank0000", "bank0000"),                    \* 0x0000-0x03ff
       map_entry(1024, 8191, 0, "ram", "ram"),                           \* 0x0400-0x1fff
       map_entry(8192, 24575, 0, "k052109_051960_r", "k052109_051960_w"), \* 0x2000-0x5fff
       map_entry(16256, 16256, 0, "SYSTEM", "none"),                     \* 0x3f80
       map_entry(16257, 16257, 0, "P1", "none"),
       map_entry(16258, 16258, 0, "P2", "none"),
       map_entry(16259, 16259, 0, "DSW2", "none"),
       map_entry(16260, 16260, 0, "DSW3", "none"),
       map_entry(16261, 16261, 0, "P3", "none"),
       map_entry(16262, 16262, 0, "P4", "none"),
       map_entry(16263, 16263, 0, "DSW1", "none"),                       \* 0x3f87
       map_entry(16264, 16264, 3, "watchdog", "crimfght_coin_w"),        \* 0x3f88
       map_entry(16268, 16268, 3, "none", "sound_w"),                    \* 0x3f8c
       map_entry(24576, 32767, 0, "rombank", "none"),                    \* 0x6000-0x7fff
       map_entry(32768, 65535, 0, "rom", "none") >>                      \* 0x8000-0xffff

\* bitwise and of two n-bit numbers
RECURSIVE AndBits(_, _, _)
AndBits(x, y, n) ==
    IF n = 0 \/ x = 0 \/ y = 0 THEN 0
    ELSE (x % 2) * (y % 2) + 2 * AndBits(x \div 2, y \div 2, n - 1)

\* the address with the mirror bits taken out
unmirror(a, mirror) == IF mirror = 0 THEN a ELSE a - AndBits(a, mirror, 16)

\* whether the range covers the address, mirrors included
covers(e, a) ==
    LET base == unmirror(a, e.mirror)
    IN  e.start <= base /\ base <= e.end

handler_of(e, kind) == IF kind = "r" THEN e.r ELSE e.w

\* the ranges that answer an access of the kind to the address
matches(amap, a, kind) ==
    { i \in DOMAIN amap : covers(amap[i], a) /\ handler_of(amap[i], kind) # "none" }

\* the handler an access is dispatched to: among the matches, the one that
\* was installed last
resolve(amap, a, kind) ==
    LET hits == matches(amap, a, kind)
    IN  IF hits = {} THEN "unmapped"
        ELSE handler_of(amap[CHOOSE i \in hits : \A k \in hits : k <= i], kind)

\* crimfght_state::machine_start: ROM bank 0 is selected; the bank0000
\* device starts on bank 0.  m_woco, m_rmrd and m_init are assigned by
\* banking_callback only (-1: not assigned yet); lmul is the data of the
\* last call of banking_callback (-1: none yet)
crimfght_machine_start ==
    [ rombank |-> 0, m_woco |-> -1, m_rmrd |-> -1, m_init |-> -1,
      bank0000 |-> 0, rmrd_line |-> CLEAR_LINE, lmul |-> -1 ]

\* MCFG_ADDRESS_MAP_BANK_STRIDE(0x400)
BankStride == 1024

\* m_bank0000->set_bank(bank): the offset added to the accesses that follow
set_bank(c, bank) == [ c EXCEPT !.bank0000 = bank * BankStride ]

\* BIT(data, n) as the number assigned to an integer member
BitOf(w, n) == IF BIT(w, n) THEN 1 ELSE 0

\* a variant of banking_callback, not part of the model: the bank0000
\* device is left alone
banking_callback_no_set_bank(c, data) ==
    [ c EXCEPT !.rombank = data % 16,
               !.m_woco = BitOf(data, 5),
               !.m_rmrd = BitOf(data, 6),
               !.rmrd_line = IF BIT(data, 6) THEN ASSERT_LINE ELSE CLEAR_LINE,
               !.m_init = BitOf(data, 7),
               !.lmul = data ]

banking_callback(c, data) ==
    LET c1 == [ c EXCEPT !.rombank = data % 16 ]
        \* bit 5 = select work RAM or palette
        c2 == set_bank([ c1 EXCEPT !.m_woco = BitOf(data, 5) ], BitOf(data, 5))
        \* bit 6 = enable char ROM reading through the video RAM
        c3 == [ c2 EXCEPT !.m_rmrd = BitOf(data, 6),
                          !.rmrd_line = IF BIT(data, 6) THEN ASSERT_LINE
                                        ELSE CLEAR_LINE ]
    IN  [ c3 EXCEPT !.m_init = BitOf(data, 7), !.lmul = data ]

\* crimfght_state::bank0000_map: work RAM, then palette RAM
bank0000_map ==
    << map_entry(0, 1023, 0, "workram", "workram"),        \* 0x0000-0x03ff
       map_entry(1024, 2047, 0, "palette", "palette") >>   \* 0x0400-0x07ff

\* the access that has not happened yet
no_access == [ kind |-> "none", addr |-> -1, handler |-> "none", offset |-> -1,
               data |-> -1 ]

\* the access of a 16-bit bus that has not happened yet
no_wide == [ kind |-> "none", addr |-> -1, size |-> 0, calls |-> << >> ]

bus_start ==
    [ amap |-> << >>, rd |-> [ addr |-> -1, handler |-> "none" ],
      cells |-> << >>, acc |-> no_access, fill |-> 255,
      crim |-> crimfght_machine_start, wide |-> no_wide ]

\* a variant of crimfght_sound_map, not part of the model: A12 is decoded in
\* the range of the YM2151
crimfght_sound_map_ym_a12 ==
    << map_entry(0, 32767, 0, "rom", "none"),
       map_entry(32768, 34815, 6144, "ram", "ram"),
       map_entry(40960, 40961, 4094, "ymsnd", "ymsnd"),
       map_entry(49152, 49152, 8191, "soundlatch", "none"),
       map_entry(57344, 57359, 8176, "k007232", "k007232") >>

crimfght_sound_map ==
    << map_entry(0, 32767, 0, "rom", "none"),                   \* 0x0000-0x7fff
       map_entry(32768, 34815, 6144, "ram", "ram"),             \* 0x8000-0x87ff, 0x1800
       map_entry(40960, 40961, 8190, "ymsnd", "ymsnd"),         \* 0xa000-0xa001, 0x1ffe
       map_entry(49152, 49152, 8191, "soundlatch", "none"),     \* 0xc000, 0x1fff
       map_entry(57344, 57359, 8176, "k007232", "k007232") >>   \* 0xe000-0xe00f, 0x1ff0

\* the offset the handler of the range is called with: the mirror bits are
\* ignored and the rest is counted from the start of the range
offset_of(e, a) == unmirror(a, e.mirror) - e.start

\* the range an access is dispatched to (0: none), its handler and the offset
dispatch(amap, a, kind) ==
    LET hits == matches(amap, a, kind)
        i == IF hits = {} THEN 0 ELSE CHOOSE i \in hits : \A k \in hits : k <= i
    IN  IF i = 0
        THEN [ range |-> 0, handler |-> "unmapped", offset |-> -1 ]
        ELSE [ range |-> i, handler |-> handler_of(amap[i], kind),
               offset |-> offset_of(amap[i], a) ]

\* the byte a handler holds at an offset (0 until it is written)
cell(cells, h, off) ==
    IF << h, off >> \in DOMAIN cells THEN cells[<< h, off >>] ELSE 0

\* the bus master reads a byte: the handler returns what it holds at the
\* offset; a read that no range answers returns the fill value of the space
read_byte(b, a) ==
    LET d == dispatch(b.amap, a, "r")
    IN  [ b EXCEPT !.acc = [ kind |-> "r", addr |-> a, handler |-> d.handler,
                             offset |-> d.offset,
                             data |-> IF d.range = 0 THEN b.fill
                                      ELSE cell(b.cells, d.handler, d.offset) ] ]

\* the bus master writes a byte: the handler stores it at the offset; a
\* write that no range answers is discarded
write_byte(b, a, v) ==
    LET d == dispatch(b.amap, a, "w")
        key == << d.handler, d.offset >>
    IN  [ b EXCEPT !.acc = [ kind |-> "w", addr |-> a, handler |-> d.handler,
                             offset |-> d.offset, data |-> v ],
                   !.cells = IF d.range = 0 THEN @
                             ELSE [ k \in DOMAIN @ \cup { key } |->
                                        IF k = key THEN v ELSE @[k] ] ]

\* address_map_bank_device::amap8: the address of an access of the bank
\* window inside the space of the bank0000 device (11 address bits)
amap8(c, offset) == (offset + c.bank0000) % 2048

\* what answers an access of the main CPU: an access that crimfght_map hands
\* to the bank0000 device is dispatched again inside bank0000_map, at the
\* address the bank selected now gives
main_dispatch(b, a, kind) ==
    LET d == dispatch(b.amap, a, kind)
    IN  IF d.handler = "bank0000"
        THEN dispatch(bank0000_map, amap8(b.crim, d.offset), kind)
        ELSE d

\* the main CPU of crimfght reads a byte
main_read(b, a) ==
    LET d == main_dispatch(b, a, "r")
    IN  [ b EXCEPT !.acc = [ kind |-> "r", addr |-> a, handler |-> d.handler,
                             offset |-> d.offset,
                             data |-> IF d.range = 0 THEN b.fill
                                      ELSE cell(b.cells, d.handler, d.offset) ] ]

\* the main CPU of crimfght writes a byte
main_write(b, a, v) ==
    LET d == main_dispatch(b, a, "w")
        key == << d.handler, d.offset >>
    IN  [ b EXCEPT !.acc = [ kind |-> "w", addr |-> a, handler |-> d.handler,
                             offset |-> d.offset, data |-> v ],
                   !.cells = IF d.range = 0 THEN @
                             ELSE [ k \in DOMAIN @ \cup { key } |->
                                        IF k = key THEN v ELSE @[k] ] ]

\* the data of banking_callback: banks 0 and 1, with other bits set or not
BankDatas == { 0, 32, 37, 223 }

\* addresses of the main CPU around the bank window
BankAddrs == { 0, 1023, 1024 }

\* HP_MAKE_IOADDR(pa, ic): an address of the I/O bus is a 4-bit peripheral
\* address followed by a 2-bit register address
HP_MAKE_IOADDR(pa, ic) == pa * 4 + ic

\* a variant of cpu_io_map, not part of the model: the keyboard answers the
\* reads of PA=0 and PA=1
cpu_io_map_kb_pa1 ==
    << map_entry(HP_MAKE_IOADDR(0, 0), HP_MAKE_IOADDR(1, 3), 0, "hp64k_kb_r", "none"),
       map_entry(HP_MAKE_IOADDR(2, 0), HP_MAKE_IOADDR(2, 3), 0, "hp64k_deltat_r", "hp64k_deltat_w"),
       map_entry(HP_MAKE_IOADDR(4, 0), HP_MAKE_IOADDR(4, 3), 0, "hp64k_flp_r", "hp64k_flp_w"),
       map_entry(HP_MAKE_IOADDR(5, 0), HP_MAKE_IOADDR(5, 3), 0, "none", "hp64k_usart_w"),
       map_entry(HP_MAKE_IOADDR(6, 0), HP_MAKE_IOADDR(6, 3), 0, "hp64k_usart_r", "none"),
       map_entry(HP_MAKE_IOADDR(7, 1), HP_MAKE_IOADDR(7, 1), 0, "hp64k_phi_r", "hp64k_phi_w"),
       map_entry(HP_MAKE_IOADDR(7, 2), HP_MAKE_IOADDR(7, 2), 0, "hp64k_rear_sw_r", "hp64k_loopback_w"),
       map_entry(HP_MAKE_IOADDR(9, 0), HP_MAKE_IOADDR(9, 3), 0, "none", "hp64k_beep_w"),
       map_entry(HP_MAKE_IOADDR(10, 0), HP_MAKE_IOADDR(10, 3), 0, "none", "hp64k_slot_sel_w"),
       map_entry(HP_MAKE_IOADDR(12, 0), HP_MAKE_IOADDR(12, 3), 0, "none", "hp64k_irl_mask_w") >>

cpu_io_map ==
    << \* PA = 0: keyboard input
       map_entry(HP_MAKE_IOADDR(0, 0), HP_MAKE_IOADDR(0, 3), 0, "hp64k_kb_r", "none"),
       \* PA = 2: line sync interrupt clear / watchdog reset
       map_entry(HP_MAKE_IOADDR(2, 0), HP_MAKE_IOADDR(2, 3), 0, "hp64k_deltat_r", "hp64k_deltat_w"),
       \* PA = 4: floppy I/F
       map_entry(HP_MAKE_IOADDR(4, 0), HP_MAKE_IOADDR(4, 3), 0, "hp64k_flp_r", "hp64k_flp_w"),
       \* PA = 5: write to USART
       map_entry(HP_MAKE_IOADDR(5, 0), HP_MAKE_IOADDR(5, 3), 0, "none", "hp64k_usart_w"),
       \* PA = 6: read from USART
       map_entry(HP_MAKE_IOADDR(6, 0), HP_MAKE_IOADDR(6, 3), 0, "hp64k_usart_r", "none"),
       \* PA = 7, IC = 1: PHI
       map_entry(HP_MAKE_IOADDR(7, 1), HP_MAKE_IOADDR(7, 1), 0, "hp64k_phi_r", "hp64k_phi_w"),
       \* PA = 7, IC = 2: rear-panel switches and loopback relay control
       map_entry(HP_MAKE_IOADDR(7, 2), HP_MAKE_IOADDR(7, 2), 0, "hp64k_rear_sw_r", "hp64k_loopback_w"),
       \* PA = 9: beeper control
       map_entry(HP_MAKE_IOADDR(9, 0), HP_MAKE_IOADDR(9, 3), 0, "none", "hp64k_beep_w"),
       \* PA = 10: slot selection
       map_entry(HP_MAKE_IOADDR(10, 0), HP_MAKE_IOADDR(10, 3), 0, "none", "hp64k_slot_sel_w"),
       \* PA = 12: interrupt mask
       map_entry(HP_MAKE_IOADDR(12, 0), HP_MAKE_IOADDR(12, 3), 0, "none", "hp64k_irl_mask_w") >>

\* the read handlers of cpu_io_map that are part of the model
IoReadHandlers == { "hp64k_kb_r", "hp64k_deltat_r", "hp64k_flp_r" }

\* the write handlers of cpu_io_map that are part of the model
IoWriteHandlers ==
    { "hp64k_deltat_w", "hp64k_flp_w", "hp64k_slot_sel_w", "hp64k_irl_mask_w" }

\* the read handler called with the offset of the access
io_read(name, offset) ==
    CASE name = "hp64k_kb_r" -> hp64k_kb_r(World(name, offset))
      [] name = "hp64k_deltat_r" -> hp64k_deltat_r(World(name, offset))
      [] name = "hp64k_flp_r" -> hp64k_flp_r(World(name, offset), offset)

\* the write handler called with the offset and the data of the access
io_write(name, offset, data, e) ==
    CASE name = "hp64k_deltat_w" -> hp64k_deltat_w(WorldW(name, offset, data))
      [] name = "hp64k_flp_w" ->
             hp64k_flp_w(WorldW(name, offset, data), offset, data, e)
      [] name = "hp64k_slot_sel_w" ->
             hp64k_slot_sel_w(WorldW(name, offset, data), offset, data)
      [] name = "hp64k_irl_mask_w" ->
             hp64k_irl_mask_w(WorldW(name, offset, data), data)

\* mpu_pc98_device::map
mpu_pc98_map == << map_entry(0, 0, 0, "mpu_r", "mpu_w") >>

\* iospace.install_device(start, end, device, map): the ranges of the map of
\* the device are installed relative to start, inside the window
install_device(amap, start, end, dmap) ==
    amap \o SelectSeq([ i \in DOMAIN dmap |->
                            [ dmap[i] EXCEPT !.start = @ + start,
                                             !.end = IF @ + start > end THEN end
                                                     ELSE @ + start ] ],
                      LAMBDA r : r.start <= end)

\* mpu_pc98_device::device_start on an I/O space with nothing else in it
mpu_pc98_device_start(amap) == install_device(amap, 57552, 57555, mpu_pc98_map)

\* the fill values a space is configured with
FillValues == { 0, 255 }

\* I/O addresses of the hp64k accessed by the CPU: PA=0, PA=1, PA=2, the
\* floppy control register, PA=7 with IC=0 and IC=3, PA=10, PA=12, PA=15
IoAddrs == { 0, 4, 7, 8, 17, 28, 31, 40, 48, 63 }

\* words written by the CPU to the I/O space: the DMA read control word
IoWords == { 32 * 256 + 255 }

\* addresses of the window of the MPU-401 and the address before it
MpuAddrs == 57551..57555

\* ranges installed one at a time on a 5-bit address space, as
\* << start, end, mirror >>: 0x10 mirrored on 0x0f, 0x00-0x01 mirrored on
\* 0x0c, 0x18 and 0x04-0x05 mirrored on 0x02
MirrorRanges == { << 16, 16, 15 >>, << 0, 1, 12 >>, << 24, 24, 0 >>, << 4, 5, 2 >> }

MirrorAddrs == 0..31

\* addresses accessed on the 5-bit address space
MirrorAccessAddrs == { 0, 5, 13, 16, 24, 31 }

\* addresses read through crimfght_sound_map: both ends of every range
SoundAddrs == { 32767, 32768, 38912, 40959, 40960, 49151, 49152, 57343, 57344, 65535 }

\* bytes written by the bus master
BusBytes == { 66, 36 }

\* installs made one at a time, on a small address space
MaxInstalls == 2

GenAddrs == 0..3

GenHandlers == << "h1", "h2", "h3", "h4" >>

\* addresses read through crimfght_map: both sides of every boundary
\* between 0x1fff and 0x6000
CrimfghtAddrs == { 8191, 8192, 16255 } \cup (16256..16272) \cup { 24575, 24576 }

(***************************************************************************)
(* The C-bus slot and the MPU-401 card in it.                              *)
(*   dev.cbus.int      the interrupt lines INT0-INT6 of the slot, as its   *)
(*                     callbacks m_int_callback[0..6] were last called     *)
(*   dev.cbus.irq_out  the IRQ output of the MPU-401 core                  *)
(*   dev.cbus.dipsw    the switch of DIP-SW 5-8 that is on                 *)
(***************************************************************************)
\* no interrupt line is asserted, the IRQ output of the MPU-401 is low and
\* the DIP switches are in their default position (irq6)
cbus_start ==
    [ int |-> [ i \in 0..6 |-> 0 ], irq_out |-> 0, dipsw |-> 6 ]

\* DIP-SW 5-8: the interrupt line of the slot that the switch selects
\* (irq12, irq6, irq5, irq3 are INT5, INT2, INT1, INT0 of the C-bus)
dip_int_line(sw) ==
    CASE sw = 5 -> 5
      [] sw = 6 -> 2
      [] sw = 7 -> 1
      [] OTHER -> 0

\* pc9801_slot_device::int_w<I>(state)
int_w(w, I, state) == [ w EXCEPT !.dev.cbus.int[I] = state ]

\* mpu_pc98_device::mpu_irq_out
mpu_irq_out(w, state) == w

(***************************************************************************)
(* The device graph: the tnzs driver with its devices, and a C-bus slot    *)
(* with its CPU and the MPU-401 card plugged into it.                      *)
(***************************************************************************)
\* the device that owns the device of a tag, "" for a device of the root
owner_of(tag) ==
    CASE tag \in { "maincpu", "sub", "spritegen", "palette", "mainbank" } -> "tnzs"
      [] tag = "mpu_pc98" -> "slot"
      [] tag = "mpu401" -> "mpu_pc98"
      [] OTHER -> ""

\* the tags of the two machines
TnzsTags == { "tnzs", "maincpu", "sub", "spritegen", "palette", "mainbank" }

Pc98Tags == { "cpu", "slot", "mpu_pc98", "mpu401" }

\* the references the devices declare: required_device / optional_device
\* members with the tag they look up (DEVICE_SELF_OWNER is the owner)
DeviceRefs ==
    { [ of |-> "tnzs", member |-> "m_maincpu", tag |-> "maincpu", required |-> TRUE ],
      [ of |-> "tnzs", member |-> "m_subcpu", tag |-> "sub", required |-> FALSE ],
      [ of |-> "tnzs", member |-> "m_seta001", tag |-> "spritegen", required |-> FALSE ],
      [ of |-> "tnzs", member |-> "m_palette", tag |-> "palette", required |-> TRUE ],
      [ of |-> "tnzs", member |-> "m_mainbank", tag |-> "mainbank", required |-> FALSE ],
      [ of |-> "slot", member |-> "m_cpu", tag |-> "cpu", required |-> TRUE ],
      [ of |-> "mpu_pc98", member |-> "m_bus", tag |-> owner_of("mpu_pc98"),
        required |-> TRUE ],
      [ of |-> "mpu_pc98", member |-> "m_mpu401", tag |-> "mpu401", required |-> TRUE ] }

Members == { r.member : r \in DeviceRefs }

\* the devices a start hook goes through: mpu_pc98_device::device_start
\* takes m_bus->io_space(), which is m_cpu->space(AS_IO) of the slot
start_uses(tag) == IF tag = "mpu_pc98" THEN { "slot", "cpu" } ELSE { }

graph_start ==
    [ devices |-> << >>, phase |-> "config",
      bound |-> [ m \in Members |-> "unbound" ],
      binds |-> [ m \in Members |-> 0 ],
      unresolved |-> { }, started |-> << >>, early |-> { } ]

\* the devices of the graph
devices_of(g) == { g.devices[i] : i \in DOMAIN g.devices }

\* find(tag)
find(g, tag) == tag \in devices_of(g)

\* add_device(tag)
add_device(g, tag) == [ g EXCEPT !.devices = Append(@, tag) ]

\* the references declared by the devices of the graph
declared(g) == { r \in DeviceRefs : find(g, r.of) }

\* resolve_all with a variant that binds a required reference whose target
\* is missing like an optional one
resolve_all_lenient(g) ==
    LET ref(m) == CHOOSE r \in DeviceRefs : r.member = m
    IN  [ g EXCEPT
            !.bound = [ m \in Members |->
                          IF ref(m) \notin declared(g) THEN @[m]
                          ELSE IF find(g, ref(m).tag) THEN ref(m).tag
                          ELSE "absent" ],
            !.binds = [ m \in Members |->
                          IF ref(m) \in declared(g) THEN @[m] + 1 ELSE @[m] ],
            !.phase = "resolved" ]

\* resolve_all(): every declared reference is looked up and bound; a missing
\* target of an optional reference binds it to "absent", missing targets of
\* required references are collected and abort the bring-up
resolve_all(g) ==
    LET ref(m) == CHOOSE r \in DeviceRefs : r.member = m
        missing == { r \in declared(g) : r.required /\ ~find(g, r.tag) }
        binding(m) == ref(m) \in declared(g) \ missing
    IN  [ g EXCEPT
            !.bound = [ m \in Members |->
                          IF ~binding(m) THEN @[m]
                          ELSE IF find(g, ref(m).tag) THEN ref(m).tag
                          ELSE "absent" ],
            !.binds = [ m \in Members |->
                          IF binding(m) THEN @[m] + 1 ELSE @[m] ],
            !.unresolved = { r.tag : r \in missing },
            !.phase = IF missing = { } THEN "resolved" ELSE "aborted" ]

\* the position of a device in an order of the devices
place(order, tag) == CHOOSE i \in DOMAIN order : order[i] = tag

\* the start hooks run in the order given; a hook that goes through a device
\* started after it is recorded with that device
start_in(g, order) ==
    [ g EXCEPT
        !.started = order,
        !.early = { << d, u >> \in devices_of(g) \X devices_of(g) :
                        /\ u \in start_uses(d)
                        /\ place(order, u) > place(order, d) },
        !.phase = "started" ]

\* start_all() with a variant that starts the owners before their sub-devices
start_all_top_down(g) ==
    start_in(g, [ i \in DOMAIN g.devices |->
                      g.devices[Len(g.devices) + 1 - i] ])

\* start_all(): the start hooks run in the order of construction
start_all(g) == start_in(g, g.devices)

(***************************************************************************)
(* konmedal68k: the control register and the scanline interrupts.          *)
(***************************************************************************)
\* konmedal68k_state after machine_reset, dw_keyboard_device after
\* device_start, a machine configuration with no device in it, and a C-bus
\* slot with the MPU-401 card after their start
dev_start ==
    [ kon |-> [ m_control |-> 0, irq3 |-> CLEAR_LINE, irq4 |-> CLEAR_LINE ],
      kbd |-> [ mcu_reset |-> CLEAR_LINE ],
      graph |-> graph_start,
      cbus |-> cbus_start ]

\* MCFG_SCREEN_SIZE(64*8, 32*8): the scanlines of a frame
screen_height == 32 * 8

control_w(w, data) ==
    LET w1 == [ w EXCEPT !.dev.kon.m_control = data % 256 ]
        w2 == IF ~BIT(data, 3) THEN [ w1 EXCEPT !.dev.kon.irq3 = CLEAR_LINE ]
              ELSE w1
    IN  IF ~BIT(data, 4) THEN [ w2 EXCEPT !.dev.kon.irq4 = CLEAR_LINE ] ELSE w2

scanline(w, param) ==
    LET w1 == IF param = 240 /\ BIT(w.dev.kon.m_control, 3)
              THEN [ w EXCEPT !.dev.kon.irq3 = ASSERT_LINE ]
              ELSE w
    IN  IF param = 255 /\ BIT(w1.dev.kon.m_control, 4)
        THEN [ w1 EXCEPT !.dev.kon.irq4 = ASSERT_LINE ]
        ELSE w1

\* the scanline timer fires, with a variant that does not arm it again
scanline_timer_once(w, h, param) == scanline(w, param)

\* the scanline timer fires: the driver is called with the scanline reached
\* and the timer is armed again, from inside the call, for the next scanline
scanline_timer(w, h, param) ==
    [ timer_adjust(scanline(w, param), h, 1)
        EXCEPT !.sch.timers[h].param = (param + 1) % screen_height ]

(***************************************************************************)
(* dw_keyboard: the reset line and its timer.                              *)
(***************************************************************************)
device_timer(w) == [ w EXCEPT !.dev.kbd.mcu_reset = ASSERT_LINE ]

\* reset_w with a variant that takes the line with the opposite polarity
reset_w_inverted(w, state) ==
    IF state # 0
    THEN timer_adjust(w, timer_handle(w, "device_timer"), 50)
    ELSE [ timer_adjust_never(w, timer_handle(w, "device_timer"))
             EXCEPT !.dev.kbd.mcu_reset = CLEAR_LINE ]

reset_w(w, state) ==
    IF state = 0
    THEN timer_adjust(w, timer_handle(w, "device_timer"), 50)
    ELSE [ timer_adjust_never(w, timer_handle(w, "device_timer"))
             EXCEPT !.dev.kbd.mcu_reset = CLEAR_LINE ]

(***************************************************************************)
(* konmedal68k: the address space of the 68000, 16 data bits wide and      *)
(* big-endian.  A range is [start, end, mirror, r, w, bits, umask]: bits   *)
(* is the width of its handlers and umask the byte lanes of the bus that   *)
(* an 8-bit handler is wired to.                                           *)
(***************************************************************************)
map_entry16(start, end, bits, umask, r, w) ==
    [ start |-> start, end |-> end, mirror |-> 0, r |-> r, w |-> w,
      bits |-> bits, umask |-> umask ]

kzaurus_main ==
    << map_entry16(0, 524287, 16, 65535, "rom", "none"),                \* 0x000000
       map_entry16(4194304, 4210687, 16, 65535, "ram", "ram"),          \* 0x400000
       map_entry16(8388608, 8388609, 16, 65535, "none", "control_w"),   \* 0x800000
       map_entry16(8388612, 8388613, 16, 65535, "DSW", "none"),         \* 0x800004
       map_entry16(8388614, 8388615, 16, 65535, "IN1", "none"),
       map_entry16(8388616, 8388617, 16, 65535, "IN0", "none"),
       map_entry16(8454144, 8454145, 16, 65535, "none", "control2_w"),  \* 0x810000
       map_entry16(8585216, 8585279, 16, 65535, "word_r", "word_w"),    \* 0x830000
       map_entry16(8650752, 8650767, 16, 65535, "none", "b_word_w"),    \* 0x840000
       map_entry16(8716316, 8716319, 16, 65535, "none", "nop"),         \* 0x85001c
       map_entry16(8847360, 8847455, 16, 65535, "none", "K055555_word_w"),
       map_entry16(8912896, 8912899, 8, 65280, "ymz_read", "ymz_write"), \* 0x880000
       map_entry16(10485760, 10493951, 16, 65535, "ram_word_r", "ram_word_w"),
       map_entry16(10493952, 10502143, 16, 65535, "ram_word_r", "ram_word_w"),
       map_entry16(11534336, 11542527, 16, 65535, "palette", "write16"), \* 0xb00000
       map_entry16(12582912, 12591103, 16, 65535, "vrom_r", "none") >>   \* 0xc00000

\* the byte lanes of a bus word that a unit mask selects, as the distance of
\* the byte from the address of the word: 0 is D15-D8, 1 is D7-D0
lanes(umask) ==
    { l \in { 0, 1 } : IF l = 0 THEN umask \div 256 # 0 ELSE umask % 256 # 0 }

\* the part of a bus word that one handler call carries
part_of(data, bits, lane) ==
    IF bits = 16 THEN data
    ELSE IF lane = 0 THEN data \div 256 ELSE data % 256

\* one handler call of an access: the handler, the offset it is called with,
\* the address and the width of the part it carries, and the data
handler_call(e, h, a, lane, kind, data, cells) ==
    LET per_word == Cardinality(lanes(e.umask))
        before == Cardinality({ l \in lanes(e.umask) : l < lane })
        off == IF e.bits = 16 THEN (a - e.start) \div 2
               ELSE ((a - e.start) \div 2) * per_word + before
    IN  [ handler |-> h, offset |-> off, addr |-> a + lane, bits |-> e.bits,
          data |-> IF kind = "w" THEN part_of(data, e.bits, lane)
                   ELSE cell(cells, h, off) ]

\* the handler calls of the access of one bus word at an even address: a
\* 16-bit handler is called once; an 8-bit handler is called once for every
\* byte lane it is wired to, the byte at the lower address first; a word
\* that no range answers calls no handler
word_calls(b, a, kind, data) ==
    LET d == dispatch(b.amap, a, kind)
        e == b.amap[d.range]
        call(lane) == handler_call(e, d.handler, a, lane, kind, data, b.cells)
    IN  IF d.range = 0 THEN << >>
        ELSE IF e.bits = 16 THEN << call(0) >>
        ELSE (IF 0 \in lanes(e.umask) THEN << call(0) >> ELSE << >>)
             \o (IF 1 \in lanes(e.umask) THEN << call(1) >> ELSE << >>)

\* the handler calls of an access of size bytes at an even address, with a
\* variant that runs the bus cycle of the higher address first
RECURSIVE access_calls_descending(_, _, _, _, _)
access_calls_descending(b, a, size, kind, data) ==
    IF size <= 2 THEN word_calls(b, a, kind, data % 65536)
    ELSE access_calls_descending(b, a + 2, size - 2, kind, data % 65536)
         \o word_calls(b, a, kind, data \div 65536)

\* the handler calls of an access of size bytes at an even address: the
\* 68000 runs one bus cycle for every word, the word at the lower address
\* (the upper half of a long word) first
RECURSIVE access_calls(_, _, _, _, _)
access_calls(b, a, size, kind, data) ==
    IF size <= 2 THEN word_calls(b, a, kind, data % 65536)
    ELSE word_calls(b, a, kind, data \div 65536)
         \o access_calls(b, a + 2, size - 2, kind, data % 65536)

\* the handlers called by a write store what they are called with
RECURSIVE store_calls(_, _)
store_calls(cells, calls) ==
    IF calls = << >> THEN cells
    ELSE LET c == Head(calls)
             key == << c.handler, c.offset >>
         IN  store_calls([ k \in DOMAIN cells \cup { key } |->
                             IF k = key THEN c.data ELSE cells[k] ],
                         Tail(calls))

\* the 68000 reads or writes size bytes at an even address
wide_access(b, a, size, kind, data) ==
    LET calls == access_calls(b, a, size, kind, data)
    IN  [ b EXCEPT !.wide = [ kind |-> kind, addr |-> a, size |-> size,
                              calls |-> calls ],
                   !.cells = IF kind = "w" THEN store_calls(@, calls) ELSE @ ]

\* what the handlers of the driver that an access called did
driver_calls(w, calls) ==
    LET hit == { i \in DOMAIN calls : calls[i].handler = "control_w" }
    IN  IF hit = { } THEN w
        ELSE control_w(w, calls[CHOOSE i \in hit : TRUE].data)

(***************************************************************************)
(* The scheduler runs the timers.                                          *)
(***************************************************************************)
\* the callback of a timer that fired; input is what the input ports read.
\* The payloads of the timers no driver owns: "payload" does nothing and
\* "spawn" registers a timer of payload "payload" due param ticks later
timer_callback(w, h, cb, param, input) ==
    CASE cb = "hp64k_kb_scan" -> hp64k_kb_scan(w, input)
      [] cb = "hp64k_line_sync" -> hp64k_line_sync(w)
      [] cb = "hp64k_beeper_off" -> hp64k_beeper_off(w)
      [] cb = "scanline" -> scanline_timer(w, h, param)
      [] cb = "device_timer" -> device_timer(w)
      [] cb = "spawn" -> timer_register(w, "payload", 0, param, 0)
      [] OTHER -> w

RECURSIVE run_due(_, _, _, _)
\* the due timers fire one after the other, those that become due on the way
\* included, until none is left
run_due(w, target, late, input) ==
    IF due(w.sch, target) = {}
    THEN w
    ELSE LET h == next_due(w.sch, target)
             t == w.sch.timers[h]
         IN  run_due(timer_callback(timer_fire(w, h, target, late),
                                    h, t.cb, t.param, input),
                     target, late, input)

\* advance_to(target_time)
advance_to(w, target, late, input) ==
    LET w1 == run_due([ w EXCEPT !.sch.fired = << >> ], target, late, input)
    IN  [ w1 EXCEPT !.sch.now = target ]

(***************************************************************************)
(* A line of the interconnection layer.                                    *)
(*   wire.state  the state the source gave the line last                   *)
(*   wire.dests  the connected destinations, in the order of connection    *)
(*   wire.input  the state every destination received last (0 before any)  *)
(*   wire.log    the deliveries made by the operation that ran last, as    *)
(*               << destination, state >>, in order                        *)
(*   wire.op     the operation that ran last                               *)
(***************************************************************************)
\* the number of destinations connected to the line
MaxDests == 2

WireDests == { "d1", "d2", "d3" }

wire_start ==
    [ state |-> 0, dests |-> << >>, input |-> [ d \in WireDests |-> 0 ],
      log |-> << >>, op |-> << "start", 0 >> ]

\* the input handler of a destination is invoked with the state
deliver(l, d, s) ==
    [ l EXCEPT !.input[d] = s, !.log = Append(@, << d, s >>) ]

\* the destinations from the i-th on are invoked, one after the other
RECURSIVE deliver_from(_, _, _)
deliver_from(l, i, s) ==
    IF i > Len(l.dests) THEN l
    ELSE deliver_from(deliver(l, l.dests[i], s), i + 1, s)

\* the source gives the line a state: every connected destination is invoked
\* before the call returns
line_assert(l, s) ==
    deliver_from([ l EXCEPT !.state = s, !.log = << >>, !.op = << "assert", s >> ],
                 1, s)

\* a destination is connected: when the line is asserted already, the
\* destination is invoked with the current state
line_connect(l, d) ==
    LET l1 == [ l EXCEPT !.dests = Append(@, d), !.log = << >>,
                         !.op = << "connect", d >> ]
    IN  IF l1.state # 0 THEN deliver(l1, d, l1.state) ELSE l1

\* words written to the loopback relay register: relay open, relay closed
LoopbackWords == { 0, 2048 + 256 }

\* what m_s5_sw->read() returns: half duplex, full duplex
S5Switches == { 0, 1 }

(***************************************************************************)
(* Initial state: the hp64k driver object after construction and           *)
(* machine_reset, the crimfght sound path at rest and an empty address     *)
(* space.                                                                  *)
(***************************************************************************)
Init ==
    LET w == machine_reset(
                 [ hp |-> hp64k_state_alloc,
                   cpu |-> [ dmar |-> 0, irl |-> 0 ],
                   drv |-> [ cb_set |-> FALSE, beeper |-> 0,
                             uart |-> [ rxd |-> 1, dsr |-> 1, cts |-> 1 ],
                             rs232 |-> [ txd |-> 1, dtr |-> 1, rts |-> 1,
                                         rxd |-> 1, dcd |-> 1, cts |-> 1 ] ],
                   io |-> NoIo("machine_reset", 0), sch |-> sch_start,
                   dev |-> dev_start ])
    IN  /\ hp = w.hp
        /\ cpu = w.cpu
        /\ drv = w.drv
        /\ io = w.io
        /\ keys = {}
        /\ steps = 0
        /\ snd = snd_start
        /\ bus = bus_start
        /\ wire = wire_start
        /\ sch = sch_start
        /\ dev = dev_start

(***************************************************************************)
(* Actions: one per handler, over the inputs given.                        *)
(***************************************************************************)
MachineReset ==
    /\ Commit(machine_reset(World("machine_reset", 0)))
    /\ UNCHANGED keys

FlpDrq(envs) ==
    \E state \in Line, e \in envs :
        /\ Commit(hp64k_flp_drq_w(World("hp64k_flp_drq_w", state), state, e))
        /\ UNCHANGED keys

FlpIntrq ==
    \E state \in Line :
        /\ Commit(hp64k_flp_intrq_w(World("hp64k_flp_intrq_w", state), state))
        /\ UNCHANGED keys

FlpRead ==
    \E offset \in 0..3 :
        /\ Commit(hp64k_flp_r(World("hp64k_flp_r", offset), offset))
        /\ UNCHANGED keys

\* a write of IC=0, IC=2 or IC=3
FlpWriteData(words, envs) ==
    \E offset \in { 0, 2, 3 }, data \in words, e \in envs :
        /\ Commit(hp64k_flp_w(WorldW("hp64k_flp_w", offset, data), offset, data, e))
        /\ UNCHANGED keys

\* a write of IC=1
FlpWriteCtrl(words, envs) ==
    \E data \in words, e \in envs :
        /\ Commit(hp64k_flp_w(WorldW("hp64k_flp_w", 1, data), 1, data, e))
        /\ UNCHANGED keys

Floppy0Rdy ==
    \E state \in Line :
        /\ Commit(hp64k_floppy0_rdy(World("hp64k_floppy0_rdy", state), state))
        /\ UNCHANGED keys

Floppy1Rdy ==
    \E state \in Line :
        /\ Commit(hp64k_floppy1_rdy(World("hp64k_floppy1_rdy", state), state))
        /\ UNCHANGED keys

FloppyIdx(floppies, envs) ==
    \E floppy \in floppies, state \in Line, e \in envs :
        /\ drv.cb_set
        /\ Commit(hp64k_floppy_idx_cb(World("hp64k_floppy_idx_cb", state),
                                      floppy, state, e))
        /\ UNCHANGED keys

FloppyWpt(floppies) ==
    \E floppy \in floppies, state \in Line :
        /\ drv.cb_set
        /\ Commit(hp64k_floppy_wpt_cb(World("hp64k_floppy_wpt_cb", state),
                                      floppy, state))
        /\ UNCHANGED keys

KbScan ==
    /\ Commit(hp64k_kb_scan(World("hp64k_kb_scan", 0), keys))
    /\ UNCHANGED keys

KbRead ==
    /\ Commit(hp64k_kb_r(World("hp64k_kb_r", 0)))
    /\ UNCHANGED keys

LineSync ==
    /\ Commit(hp64k_line_sync(World("hp64k_line_sync", 0)))
    /\ UNCHANGED keys

DeltatRead ==
    /\ Commit(hp64k_deltat_r(World("hp64k_deltat_r", 0)))
    /\ UNCHANGED keys

DeltatWrite ==
    /\ Commit(hp64k_deltat_w(World("hp64k_deltat_w", 0)))
    /\ UNCHANGED keys

IrlMaskWrite(masks) ==
    \E data \in masks :
        /\ Commit(hp64k_irl_mask_w(WorldW("hp64k_irl_mask_w", 0, data), data))
        /\ UNCHANGED keys

SlotSel(words) ==
    \E offset \in 0..3, data \in words :
        /\ Commit(hp64k_slot_sel_w(WorldW("hp64k_slot_sel_w", offset, data),
                                   offset, data))
        /\ UNCHANGED keys

RxRdy ==
    \E state \in Line :
        /\ Commit(hp64k_rxrdy_w(World("hp64k_rxrdy_w", state), state))
        /\ UNCHANGED keys

TxRdy ==
    \E state \in Line :
        /\ Commit(hp64k_txrdy_w(World("hp64k_txrdy_w", state), state))
        /\ UNCHANGED keys

PhiInt ==
    \E state \in Line :
        /\ Commit(hp64k_phi_int_w(World("hp64k_phi_int_w", state), state))
        /\ UNCHANGED keys

IrqCallback ==
    \E irqline \in { "HPHYBRID_IRL", "HPHYBRID_IRH" } :
        /\ Commit(hp64k_irq_callback(World("hp64k_irq_callback", irqline), irqline))
        /\ UNCHANGED keys

\* the operator presses or releases a key
KeyChange(positions) ==
    \E p \in positions :
        /\ keys' = (IF p \in keys THEN keys \ { p } ELSE keys \cup { p })
        /\ UNCHANGED << hp, cpu, drv, io, snd, bus, wire, sch,
                        dev >>

\* crimfght: the main CPU writes the sound latch
SoundW ==
    \E data \in SndBytes :
        /\ snd.writes < MaxSndWrites
        /\ snd' = [ sound_w(snd, data) EXCEPT
                        !.op = "sound_w", !.ret = -1, !.writes = @ + 1 ]
        /\ UNCHANGED << hp, cpu, drv, keys, io, bus, wire, sch,
                        dev >>

\* crimfght: the audio CPU accepts the interrupt pending on IRQ0
AudioAccept ==
    /\ snd.irq0 = ASSERT_LINE
    /\ snd.iff1
    /\ snd' = [ take_interrupt(snd) EXCEPT !.op = "take_interrupt" ]
    /\ UNCHANGED << hp, cpu, drv, keys, io, bus, wire, sch,
                    dev >>

\* crimfght: the audio CPU enables its interrupts
AudioEI ==
    /\ ~snd.iff1
    /\ snd' = [ snd EXCEPT !.iff1 = TRUE, !.op = "ei", !.ret = -1 ]
    /\ UNCHANGED << hp, cpu, drv, keys, io, bus, wire, sch,
                    dev >>

\* crimfght: the audio CPU reads the sound latch
AudioLatchRead ==
    /\ snd' = [ soundlatch_read(snd) EXCEPT !.op = "soundlatch_read" ]
    /\ UNCHANGED << hp, cpu, drv, keys, io, bus, wire, sch,
                    dev >>

\* a range with a read handler of its own is installed
InstallRange ==
    \E start \in GenAddrs, end \in GenAddrs :
        /\ start <= end
        /\ Len(bus.amap) < MaxInstalls
        /\ bus' = [ bus EXCEPT !.amap =
                        Append(@, map_entry(start, end, 0,
                                            GenHandlers[Len(bus.amap) + 1],
                                            "none")) ]
        /\ UNCHANGED << hp, cpu, drv, keys, io, snd, wire, sch,
                        dev >>

\* the address space of the crimfght main CPU is built
MapCrimfght ==
    /\ bus.amap = << >>
    /\ bus' = [ bus EXCEPT !.amap = crimfght_map ]
    /\ UNCHANGED << hp, cpu, drv, keys, io, snd, wire, sch,
                    dev >>

\* the bus master reads an address
BusRead(addrs) ==
    \E a \in addrs :
        /\ bus' = [ bus EXCEPT !.rd =
                        [ addr |-> a, handler |-> resolve(bus.amap, a, "r") ] ]
        /\ UNCHANGED << hp, cpu, drv, keys, io, snd, wire, sch,
                        dev >>

\* a range with one handler for reads and writes is installed with a mirror
InstallMirrored ==
    \E r \in MirrorRanges :
        /\ Len(bus.amap) < MaxInstalls
        /\ bus' = [ bus EXCEPT !.amap =
                        Append(@, map_entry(r[1], r[2], r[3],
                                            GenHandlers[Len(bus.amap) + 1],
                                            GenHandlers[Len(bus.amap) + 1])) ]
        /\ UNCHANGED << hp, cpu, drv, keys, io, snd, wire, sch,
                        dev >>

\* the address space of the crimfght audio CPU is built
MapCrimfghtSound ==
    /\ bus.amap = << >>
    /\ bus' = [ bus EXCEPT !.amap = crimfght_sound_map ]
    /\ UNCHANGED << hp, cpu, drv, keys, io, snd, wire, sch,
                    dev >>

\* the bus master reads a byte
MemRead(addrs) ==
    \E a \in addrs :
        /\ bus' = read_byte(bus, a)
        /\ UNCHANGED << hp, cpu, drv, keys, io, snd, wire, sch,
                        dev >>

\* the bus master writes a byte
MemWrite(addrs, bytes) ==
    \E a \in addrs, v \in bytes :
        /\ bus' = write_byte(bus, a, v)
        /\ UNCHANGED << hp, cpu, drv, keys, io, snd, wire, sch,
                        dev >>

\* a destination is connected to the line
WireConnect ==
    \E d \in WireDests :
        /\ Len(wire.dests) < MaxDests
        /\ \A i \in DOMAIN wire.dests : wire.dests[i] # d
        /\ wire' = line_connect(wire, d)
        /\ UNCHANGED << hp, cpu, drv, keys, io, snd, bus, sch,
                        dev >>

\* the source asserts or clears the line
WireAssert ==
    \E s \in Line :
        /\ wire' = line_assert(wire, s)
        /\ UNCHANGED << hp, cpu, drv, keys, io, snd, bus, sch,
                        dev >>

\* hp64k: the USART changes its TXD output
TxdW ==
    \E state \in Line :
        /\ Commit(hp64k_txd_w(World("hp64k_txd_w", state), state))
        /\ UNCHANGED keys

\* hp64k: the USART changes its DTR output
DtrW ==
    \E state \in Line :
        /\ Commit(hp64k_dtr_w(World("hp64k_dtr_w", state), state))
        /\ UNCHANGED keys

\* hp64k: the USART changes its RTS output
RtsW ==
    \E state \in Line, s5_sw \in S5Switches :
        /\ Commit(hp64k_rts_w(WorldW("hp64k_rts_w", state, s5_sw), state, s5_sw))
        /\ UNCHANGED keys

\* hp64k: the CPU writes the loopback relay register
LoopbackW ==
    \E data \in LoopbackWords :
        /\ Commit(hp64k_loopback_w(WorldW("hp64k_loopback_w", 0, data), data))
        /\ UNCHANGED keys

\* hp64k: the RS232 port changes its RXD line
Rs232Rxd ==
    \E state \in Line :
        /\ Commit(hp64k_rs232_rxd_w(World("hp64k_rs232_rxd_w", state), state))
        /\ UNCHANGED keys

\* hp64k: the RS232 port changes its DCD line
Rs232Dcd ==
    \E state \in Line :
        /\ Commit(hp64k_rs232_dcd_w(World("hp64k_rs232_dcd_w", state), state))
        /\ UNCHANGED keys

\* hp64k: the RS232 port changes its CTS line
Rs232Cts ==
    \E state \in Line :
        /\ Commit(hp64k_rs232_cts_w(World("hp64k_rs232_cts_w", state), state))
        /\ UNCHANGED keys

\* crimfght: the main CPU drives its output lines
BankingCallback(datas) ==
    \E data \in datas :
        /\ bus' = [ bus EXCEPT !.crim = banking_callback(@, data) ]
        /\ UNCHANGED << hp, cpu, drv, keys, io, snd, wire, sch,
                        dev >>

\* crimfght: the main CPU reads a byte
MainRead(addrs) ==
    \E a \in addrs :
        /\ bus.amap = crimfght_map
        /\ bus' = main_read(bus, a)
        /\ UNCHANGED << hp, cpu, drv, keys, io, snd, wire, sch,
                        dev >>

\* crimfght: the main CPU writes a byte
MainWrite(addrs, bytes) ==
    \E a \in addrs, v \in bytes :
        /\ bus.amap = crimfght_map
        /\ bus' = main_write(bus, a, v)
        /\ UNCHANGED << hp, cpu, drv, keys, io, snd, wire, sch,
                        dev >>

\* what the handlers of a step did to the driver and its surroundings
Deliver(w) ==
    /\ hp' = w.hp
    /\ cpu' = w.cpu
    /\ drv' = w.drv
    /\ io' = w.io
    /\ sch' = w.sch
    /\ dev' = w.dev

\* the I/O space of the hp64k CPU is built
MapHp64kIo ==
    \E fill \in FillValues :
        /\ bus.amap = << >>
        /\ bus' = [ bus EXCEPT !.amap = cpu_io_map, !.fill = fill ]
        /\ UNCHANGED << hp, cpu, drv, keys, io, snd, wire, sch,
                        dev >>

\* the MPU-401 card starts on the I/O space of the C-bus
MapMpuPc98 ==
    \E fill \in FillValues :
        /\ bus.amap = << >>
        /\ bus' = [ bus EXCEPT !.amap = mpu_pc98_device_start(@), !.fill = fill ]
        /\ UNCHANGED << hp, cpu, drv, keys, io, snd, wire, sch,
                        dev >>

\* the hp64k CPU reads a word of its I/O space
IoRead(addrs) ==
    \E a \in addrs :
        LET d == dispatch(bus.amap, a, "r")
        IN  /\ bus.amap = cpu_io_map
            /\ IF d.range = 0
               THEN /\ bus' = read_byte(bus, a)
                    /\ UNCHANGED << hp, cpu, drv, io, sch, dev >>
               ELSE /\ d.handler \in IoReadHandlers
                    /\ LET w == io_read(d.handler, d.offset)
                       IN  /\ Deliver(w)
                           /\ bus' = [ bus EXCEPT !.acc =
                                           [ kind |-> "r", addr |-> a,
                                             handler |-> d.handler,
                                             offset |-> d.offset,
                                             data |-> w.io.ret ] ]
            /\ UNCHANGED << keys, snd, wire >>

\* the hp64k CPU writes a word of its I/O space
IoWrite(addrs, words, envs) ==
    \E a \in addrs, data \in words, e \in envs :
        LET d == dispatch(bus.amap, a, "w")
        IN  /\ bus.amap = cpu_io_map
            /\ IF d.range = 0
               THEN /\ bus' = write_byte(bus, a, data)
                    /\ UNCHANGED << hp, cpu, drv, io, sch, dev >>
               ELSE /\ d.handler \in IoWriteHandlers
                    /\ LET w == io_write(d.handler, d.offset, data, e)
                       IN  /\ Deliver(w)
                           /\ bus' = [ bus EXCEPT !.acc =
                                           [ kind |-> "w", addr |-> a,
                                             handler |-> d.handler,
                                             offset |-> d.offset,
                                             data |-> data ] ]
            /\ UNCHANGED << keys, snd, wire >>

\* the periods of the hp64k timers, in milliseconds: 100 Hz and 50 Hz
kb_timer_period == 1000 \div 100

linesync_timer_period == 1000 \div 50

\* the timers of the hp64k are started, in the order of the machine
\* configuration: kb_timer, linesync_timer and the beep timer, which waits for
\* its first arming.  A periodic timer fires first at once or after a period
hp64k_timers_start(w, at_once) ==
    timer_alloc(
        timer_register(
            timer_register(w, "hp64k_kb_scan", 0,
                           IF at_once THEN 0 ELSE kb_timer_period,
                           kb_timer_period),
            "hp64k_line_sync", 0,
            IF at_once THEN 0 ELSE linesync_timer_period,
            linesync_timer_period),
        "hp64k_beeper_off")

Hp64kTimersStart ==
    \E at_once \in BOOLEAN :
        /\ sch.timers = << >>
        /\ Commit(hp64k_timers_start(World("hp64k_timers_start", 0), at_once))
        /\ UNCHANGED keys

\* the CPU writes to the beeper control
BeepW ==
    \E offset \in { 0, 1 } :
        /\ timer_handle(World("hp64k_beep_w", offset), "hp64k_beeper_off") # 0
        /\ Commit(hp64k_beep_w(World("hp64k_beep_w", offset), offset))
        /\ UNCHANGED keys

\* the machine runs on by one of the durations given, its callbacks running
\* behind their time by one of the delays given
AdvanceTo(durations, lates) ==
    \E d \in durations, late \in lates :
        /\ sch.timers # << >>
        /\ sch.now + d <= MaxTime
        /\ Commit(advance_to(World("advance_to", sch.now + d), sch.now + d,
                             late, keys))
        /\ UNCHANGED keys

\* a timer is registered, while fewer than max are
RegisterTimer(cbs, params, delays, periods, max) ==
    \E cb \in cbs, param \in params, delay \in delays, period \in periods :
        /\ Len(sch.timers) < max
        /\ Commit(timer_register(World("register", delay), cb, param, delay,
                                 period))
        /\ UNCHANGED keys

\* the scanline timer of the konmedal68k is started, for scanline 0
ScanTimerStart ==
    /\ sch.timers = << >>
    /\ Commit(timer_register(World("scantimer", 0), "scanline", 0, 0, 0))
    /\ UNCHANGED keys

\* the CPU of the konmedal68k writes its control register
ControlW(datas) ==
    \E data \in datas :
        /\ Commit(control_w(WorldW("control_w", 0, data), data))
        /\ UNCHANGED keys

\* the dw_keyboard is started: its reset timer is allocated
KbdStart ==
    /\ sch.timers = << >>
    /\ Commit(timer_alloc(World("device_start", 0), "device_timer"))
    /\ UNCHANGED keys

\* the host drives the reset line of the dw_keyboard
ResetW ==
    \E state \in { 0, 1 } :
        /\ sch.timers # << >>
        /\ Commit(reset_w(World("reset_w", state), state))
        /\ UNCHANGED keys

\* the address space of the 68000 of the konmedal68k is built
MapKzaurus ==
    /\ bus.amap = << >>
    /\ bus' = [ bus EXCEPT !.amap = kzaurus_main ]
    /\ UNCHANGED << hp, cpu, drv, keys, io, snd, wire, sch, dev >>

\* the 68000 reads a word or a long word
WideRead(addrs, sizes) ==
    \E a \in addrs, size \in sizes :
        /\ bus' = wide_access(bus, a, size, "r", 0)
        /\ UNCHANGED << hp, cpu, drv, keys, io, snd, wire, sch, dev >>

\* the 68000 writes a word or a long word
WideWrite(addrs, sizes, datas) ==
    \E a \in addrs, size \in sizes, data \in datas :
        /\ bus' = wide_access(bus, a, size, "w", data)
        /\ Deliver(driver_calls(WorldW("wide", a, data), bus'.wide.calls))
        /\ UNCHANGED << keys, snd, wire >>

\* the IRQ output of the MPU-401 core changes: the core calls the line
\* callback that the card gave it
MpuIrqOut ==
    \E state \in Line :
        /\ dev.cbus.irq_out # state
        /\ Commit(mpu_irq_out([ World("mpu_irq_out", state)
                                  EXCEPT !.dev.cbus.irq_out = state ], state))
        /\ UNCHANGED keys

\* another card of the C-bus drives an interrupt line of the slot
SlotIntW ==
    \E I \in 0..6, state \in Line :
        /\ Commit(int_w(World("int_w", I), I, state))
        /\ UNCHANGED keys

\* the FDC asserts DRQ again while the sequencer waits for the second byte
\* of a DMA cycle
DrqAgain(envs) ==
    \E e \in envs :
        /\ hp.m_floppy_if_state \in { HP64K_FLPST_DMAWR2, HP64K_FLPST_DMARD1 }
        /\ Commit(hp64k_flp_drq_w(World("hp64k_flp_drq_w", 1), 1, e))
        /\ UNCHANGED keys

\* the CPU answers the DMA request with the matching access: a write of
\* IC=0 or IC=2 in DMAWR1, a read of IC=0 or IC=2 in DMARD2
CpuAnswer(words, envs) ==
    \E offset \in { 0, 2 }, data \in words, e \in envs :
        /\ cpu.dmar = 1
        /\ \/ /\ hp.m_floppy_if_state = HP64K_FLPST_DMAWR1
              /\ Commit(hp64k_flp_w(WorldW("hp64k_flp_w", offset, data),
                                    offset, data, e))
           \/ /\ hp.m_floppy_if_state = HP64K_FLPST_DMARD2
              /\ Commit(hp64k_flp_r(World("hp64k_flp_r", offset), offset))
        /\ UNCHANGED keys

\* a timer is cancelled through one of the handles given
CancelTimer(handles) ==
    \E h \in handles :
        /\ Commit(timer_cancel(World("cancel", h), h))
        /\ UNCHANGED keys

\* a device of the machine under construction is instantiated, before the
\* device that owns it
AddDevice ==
    \E tag \in TnzsTags \cup Pc98Tags :
        LET g == dev.graph
        IN  /\ g.phase = "config"
            /\ ~find(g, tag)
            /\ ~find(g, owner_of(tag))
            /\ devices_of(g) \subseteq TnzsTags \/ tag \in Pc98Tags
            /\ devices_of(g) \subseteq Pc98Tags \/ tag \in TnzsTags
            /\ dev' = [ dev EXCEPT !.graph = add_device(g, tag) ]
            /\ UNCHANGED << hp, cpu, drv, keys, io, snd, bus, wire, sch >>

\* the references of the graph are resolved, once every device has its owner
ResolveAll ==
    LET g == dev.graph
    IN  /\ g.phase = "config"
        /\ g.devices # << >>
        /\ \A d \in devices_of(g) : owner_of(d) = "" \/ find(g, owner_of(d))
        /\ dev' = [ dev EXCEPT !.graph = resolve_all(g) ]
        /\ UNCHANGED << hp, cpu, drv, keys, io, snd, bus, wire, sch >>

\* the devices are started; the MPU-401 card installs its handlers in the
\* I/O space of the CPU of its slot
StartAll ==
    LET g == dev.graph
    IN  /\ g.phase = "resolved"
        /\ dev' = [ dev EXCEPT !.graph = start_all(g) ]
        /\ bus' = IF find(g, "mpu_pc98")
                  THEN [ bus EXCEPT !.amap = mpu_pc98_device_start(@) ]
                  ELSE bus
        /\ UNCHANGED << hp, cpu, drv, keys, io, snd, wire, sch >>

\* a step of a specification that explores runs of any length
Unbounded(A) == A /\ UNCHANGED steps

\* a step of a specification that explores the runs of up to max steps
Bounded(A, max) == steps < max /\ steps' = steps + 1 /\ A

(***************************************************************************)
(* Spec: the floppy DMA sequencer.  The CPU programs DMA transfers in both *)
(* directions and accesses the floppy registers in any order, the FDC      *)
(* raises and drops DRQ at any time.                                       *)
(***************************************************************************)
\* IC=1 words: DMA off / read / write, with and without interrupt clear
DmaCtrlWords == { c * 256 + 255 : c \in { 0, 32, 96, 160, 224 } }

Next ==
    \/ Unbounded(MachineReset)
    \/ Unbounded(FlpDrq(FdcEnv({ "none" })))
    \/ Unbounded(FlpRead)
    \/ Unbounded(FlpWriteData(CpuWords, FdcEnv({ "none" })))
    \/ Unbounded(FlpWriteCtrl(DmaCtrlWords, FdcEnv({ "none" })))

Spec == Init /\ [][Next]_vars

(***************************************************************************)
(* SpecFrame: every run of up to MaxFrameSteps handler calls in which the  *)
(* sequencer is driven through both DMA cycles while the FDC interrupt     *)
(* line, the drives, the timers and the other registers of the CPU I/O     *)
(* space are active.                                                       *)
(***************************************************************************)
MaxFrameSteps == 5

\* the FDC hands one byte over and drops DRQ
OneByteEnv(cbs) == { [ val |-> FdcByte(1), drop |-> TRUE, cb |-> c ] : c \in cbs }

\* IC=1 words: DMA read, DMA write, selection of drive 0
FrameCtrlWords == { 32 * 256 + 255, 96 * 256 + 255, 8 * 256 + 254 }

NextFrame ==
    \/ Bounded(MachineReset, MaxFrameSteps)
    \/ Bounded(FlpDrq(OneByteEnv({ "none" })), MaxFrameSteps)
    \/ Bounded(FlpRead, MaxFrameSteps)
    \/ Bounded(FlpWriteData({ 4660 }, OneByteEnv({ "none" })), MaxFrameSteps)
    \/ Bounded(FlpWriteCtrl(FrameCtrlWords, OneByteEnv({ "none" })), MaxFrameSteps)
    \/ Bounded(FlpIntrq, MaxFrameSteps)
    \/ Bounded(Floppy0Rdy, MaxFrameSteps)
    \/ Bounded(Floppy1Rdy, MaxFrameSteps)
    \/ Bounded(FloppyIdx({ "floppy0" }, OneByteEnv({ "none", "intrq1" })), MaxFrameSteps)
    \/ Bounded(FloppyWpt({ "floppy0", "floppy1" }), MaxFrameSteps)
    \/ Bounded(KbScan, MaxFrameSteps)
    \/ Bounded(LineSync, MaxFrameSteps)
    \/ Bounded(KbRead, MaxFrameSteps)
    \/ Bounded(DeltatRead, MaxFrameSteps)
    \/ Bounded(DeltatWrite, MaxFrameSteps)
    \/ Bounded(IrlMaskWrite({ 21 }), MaxFrameSteps)
    \/ Bounded(SlotSel({ 2560 }), MaxFrameSteps)
    \/ Bounded(KeyChange({ 5 }), MaxFrameSteps)

SpecFrame == Init /\ [][NextFrame]_vars

(***************************************************************************)
(* SpecIrq: every run of up to MaxIrqSteps handler calls of the interrupt  *)
(* sources of the IRL register (keyboard, line sync, floppy, USART, PHI),  *)
(* the interrupt mask and the interrupt acknowledge of the CPU.            *)
(***************************************************************************)
MaxIrqSteps == 5

\* IC=1 words: interrupts left alone, interrupts cleared
IrqCtrlWords == { 0 * 256 + 255, 128 * 256 + 255 }

NextIrq ==
    \/ Bounded(MachineReset, MaxIrqSteps)
    \/ Bounded(IrqCallback, MaxIrqSteps)
    \/ Bounded(IrlMaskWrite({ 0, 255 }), MaxIrqSteps)
    \/ Bounded(KeyChange({ 5 }), MaxIrqSteps)
    \/ Bounded(KbScan, MaxIrqSteps)
    \/ Bounded(KbRead, MaxIrqSteps)
    \/ Bounded(LineSync, MaxIrqSteps)
    \/ Bounded(DeltatRead, MaxIrqSteps)
    \/ Bounded(DeltatWrite, MaxIrqSteps)
    \/ Bounded(RxRdy, MaxIrqSteps)
    \/ Bounded(TxRdy, MaxIrqSteps)
    \/ Bounded(PhiInt, MaxIrqSteps)
    \/ Bounded(FlpIntrq, MaxIrqSteps)
    \/ Bounded(FlpRead, MaxIrqSteps)
    \/ Bounded(FlpWriteCtrl(IrqCtrlWords, OneByteEnv({ "none" })), MaxIrqSteps)

SpecIrq == Init /\ [][NextIrq]_vars

(***************************************************************************)
(* SpecSnd: the crimfght main CPU writes the sound latch, the audio CPU    *)
(* enables its interrupts, accepts them and reads the latch.               *)
(***************************************************************************)
NextSnd ==
    \/ Unbounded(SoundW)
    \/ Unbounded(AudioAccept)
    \/ Unbounded(AudioEI)
    \/ Unbounded(AudioLatchRead)

SpecSnd == Init /\ [][NextSnd]_vars

(***************************************************************************)
(* SpecMap: ranges are installed into an address space one at a time, or   *)
(* the crimfght address space is built, and the bus master reads.          *)
(***************************************************************************)
NextMap ==
    \/ Unbounded(InstallRange)
    \/ Unbounded(MapCrimfght)
    \/ Unbounded(BusRead(GenAddrs \cup CrimfghtAddrs))

SpecMap == Init /\ [][NextMap]_vars

(***************************************************************************)
(* SpecMirror: mirrored ranges are installed into a 5-bit address space    *)
(* one at a time, or the address space of the crimfght audio CPU is built, *)
(* and the bus master reads and writes bytes.                              *)
(***************************************************************************)
NextMirror ==
    \/ Unbounded(InstallMirrored)
    \/ Unbounded(MapCrimfghtSound)
    \/ Unbounded(MemRead(MirrorAccessAddrs \cup SoundAddrs))
    \/ Unbounded(MemWrite({ 16, 24 }, BusBytes))

SpecMirror == Init /\ [][NextMirror]_vars

(***************************************************************************)
(* SpecUnmapped: every run of up to MaxIoSteps steps in which the I/O      *)
(* space of the hp64k CPU or the I/O space holding the window of the       *)
(* MPU-401 is built and accessed at mapped and unmapped addresses, while   *)
(* the keyboard, the line sync and the FDC change the state of the hp64k.  *)
(***************************************************************************)
MaxIoSteps == 4

\* the I/O space holds the window of the MPU-401
OnMpuSpace == bus.amap = mpu_pc98_device_start(<< >>)

NextUnmapped ==
    \/ Bounded(MapHp64kIo, MaxIoSteps)
    \/ Bounded(MapMpuPc98, MaxIoSteps)
    \/ Bounded(IoRead(IoAddrs), MaxIoSteps)
    \/ Bounded(IoWrite(IoAddrs, IoWords, OneByteEnv({ "none" })), MaxIoSteps)
    \/ Bounded(OnMpuSpace /\ MemRead(MpuAddrs), MaxIoSteps)
    \/ Bounded(OnMpuSpace /\ MemWrite(MpuAddrs, BusBytes), MaxIoSteps)
    \/ Bounded(KeyChange({ 5 }), MaxIoSteps)
    \/ Bounded(KbScan, MaxIoSteps)
    \/ Bounded(LineSync, MaxIoSteps)
    \/ Bounded(FlpDrq(OneByteEnv({ "none" })), MaxIoSteps)

SpecUnmapped == Init /\ [][NextUnmapped]_vars

(***************************************************************************)
(* SpecBank: the address space of the crimfght main CPU is built, the CPU  *)
(* switches the bank of the window 0x0000-0x03ff and accesses the window   *)
(* and the RAM behind it.                                                  *)
(***************************************************************************)
NextBank ==
    \/ Unbounded(MapCrimfght)
    \/ Unbounded(BankingCallback(BankDatas))
    \/ Unbounded(MainRead(BankAddrs))
    \/ Unbounded(MainWrite({ 0, 1023 }, BusBytes))

SpecBank == Init /\ [][NextBank]_vars

(***************************************************************************)
(* SpecLines: destinations are connected to a line that its source asserts *)
(* and clears; or the USART of the hp64k drives TXD, DTR and RTS, the      *)
(* RS232 port drives RXD, DCD and CTS and the CPU opens and closes the     *)
(* loopback relay.                                                         *)
(***************************************************************************)
\* the serial interface of the hp64k has not been used
SerialAtRest ==
    /\ io.op = << "machine_reset", 0 >>
    /\ \A n \in { "rxd", "dsr", "cts" } : drv.uart[n] = 1
    /\ \A n \in { "txd", "dtr", "rts", "rxd", "dcd", "cts" } : drv.rs232[n] = 1

\* the line has not been used
WireAtRest == wire = wire_start

NextLines ==
    \/ Unbounded(SerialAtRest /\ WireConnect)
    \/ Unbounded(SerialAtRest /\ WireAssert)
    \/ Unbounded(WireAtRest /\ MachineReset)
    \/ Unbounded(WireAtRest /\ TxdW)
    \/ Unbounded(WireAtRest /\ DtrW)
    \/ Unbounded(WireAtRest /\ RtsW)
    \/ Unbounded(WireAtRest /\ LoopbackW)
    \/ Unbounded(WireAtRest /\ Rs232Rxd)
    \/ Unbounded(WireAtRest /\ Rs232Dcd)
    \/ Unbounded(WireAtRest /\ Rs232Cts)

SpecLines == Init /\ [][NextLines]_vars

(***************************************************************************)
(* SpecReentry: the CPU writes the control register of the floppy          *)
(* interface while the FDC raises and drops DRQ and INTRQ from inside      *)
(* soft_reset(), write() and read(), and between the writes.               *)
(***************************************************************************)
\* IC=1 words: FDC write with DMA read enabled, FDC write with DMA off and
\* the write direction, FDC reset and read with the write direction, FDC
\* read with interrupt reset and DMA read enabled, drive control read
ReentryCtrlWords == { c * 256 + 255 : c \in { 44, 76, 84, 164, 0 } }

FdcCallbacks == { "none", "drq0", "drq1", "intrq0", "intrq1" }

NextReentry ==
    \/ Unbounded(MachineReset)
    \/ Unbounded(FlpWriteCtrl(ReentryCtrlWords, OneByteEnv(FdcCallbacks)))
    \/ Unbounded(FlpDrq(OneByteEnv({ "none" })))
    \/ Unbounded(FlpIntrq)
    \/ Unbounded(FlpRead)

SpecReentry == Init /\ [][NextReentry]_vars

(***************************************************************************)
(* SpecDmaLive: DMA cycles that run to their end.  Between two cycles the  *)
(* CPU programs the control register and the FDC raises and drops DRQ; in  *)
(* a cycle the FDC asserts DRQ again when the sequencer waits for it, and  *)
(* the CPU answers the DMA request with the matching access and makes no   *)
(* other floppy access.  Neither the FDC nor the CPU waits for ever.       *)
(***************************************************************************)
\* the sequencer is between two DMA cycles
DmaIdle == hp.m_floppy_if_state = HP64K_FLPST_IDLE

\* IC=1 words: DMA off, DMA read, DMA write
LiveCtrlWords == { c * 256 + 255 : c \in { 0, 32, 96 } }

NextDmaLive ==
    \/ Unbounded(FlpWriteCtrl(LiveCtrlWords, FdcEnv({ "none" })) /\ DmaIdle)
    \/ Unbounded(FlpDrq(FdcEnv({ "none" }))
                 /\ hp.m_floppy_if_state
                       \notin { HP64K_FLPST_DMAWR2, HP64K_FLPST_DMARD1 })
    \/ Unbounded(DrqAgain(FdcEnv({ "none" })))
    \/ Unbounded(CpuAnswer(CpuWords, FdcEnv({ "none" })))

SpecDmaLive ==
    /\ Init
    /\ [][NextDmaLive]_vars
    /\ WF_vars(Unbounded(DrqAgain(FdcEnv({ "none" }))))
    /\ WF_vars(Unbounded(CpuAnswer(CpuWords, FdcEnv({ "none" }))))

(***************************************************************************)
(* SpecFlpIrq: the floppy interrupts of the hp64k.  The CPU writes the I/F *)
(* control register with and without interrupt reset, DMA enable and drive *)
(* selection and reads the floppy registers, the FDC raises DRQ and INTRQ  *)
(* on its own and from inside its register calls, drive 0 changes its      *)
(* write protection, and the machine is reset.                             *)
(***************************************************************************)
\* IC=1 words: 0xa4ff (interrupt reset, DMA read enabled, FDC read), 0x2cff
\* (DMA read enabled, FDC write), 0x08fa (drive 0 selected) and 0x88fa
\* (interrupt reset, drive 0 selected)
FlpIrqCtrlWords == { 42239, 11519, 2298, 35066 }

(***************************************************************************)
(* SpecKbLive: the keyboard in steady operation.  The operator changes a   *)
(* few keys and then lets the keyboard be; the scan timer keeps ticking,   *)
(* and the CPU reads the keyboard register whenever the keyboard interrupt *)
(* is pending.  The CPU also rewrites the interrupt mask.                  *)
(***************************************************************************)
\* the key changes the operator makes
MaxKeyChanges == 3

\* the keys the operator touches: in the first and in the last row
LiveKeys == { 0, 5, 127 }

\* the CPU reads the keyboard register on a keyboard interrupt
CpuKbRead ==
    /\ BIT(hp.m_irl_pending, 0)
    /\ KbRead

NextKbLive ==
    \/ Bounded(KeyChange(LiveKeys), MaxKeyChanges)
    \/ Unbounded(KbScan)
    \/ Unbounded(CpuKbRead)
    \/ Unbounded(IrlMaskWrite({ 0, 1 }))

SpecKbLive ==
    /\ Init
    /\ [][NextKbLive]_vars
    /\ WF_vars(Unbounded(KbScan))
    /\ WF_vars(Unbounded(CpuKbRead))

NextFlpIrq ==
    \/ Unbounded(MachineReset)
    \/ Unbounded(FlpWriteCtrl(FlpIrqCtrlWords,
                              OneByteEnv({ "none", "intrq1" })))
    \/ Unbounded(FlpDrq(OneByteEnv({ "none" })))
    \/ Unbounded(FlpIntrq)
    \/ Unbounded(FlpRead)
    \/ Unbounded(FloppyWpt({ "floppy0" }))

SpecFlpIrq == Init /\ [][NextFlpIrq]_vars

(***************************************************************************)
(* The hp64k under its scheduler: the keyboard scan, the line sync and the *)
(* beeper run from their timers while the CPU clears the line sync         *)
(* interrupt and sounds the beeper.                                        *)
(***************************************************************************)
\* the durations the hp64k runs on by, in milliseconds
SchedDurations == { 10, 130 }

NextSched ==
    \/ Unbounded(Hp64kTimersStart)
    \/ Unbounded(BeepW)
    \/ Unbounded(AdvanceTo(SchedDurations, { 0, MaxLate }))
    \/ Unbounded(DeltatWrite)

SpecSched == Init /\ [][NextSched]_vars

(***************************************************************************)
(* One-shot timers: the beep timer of the hp64k and the one-shot timers    *)
(* registered next to the timers of the machine configuration.             *)
(***************************************************************************)
\* the delays of the one-shot timers, in milliseconds
OneShotDelays == { 40, 120 }

\* the durations the machine runs on by, in milliseconds
OneShotDurations == { 100 }

\* the timers of the hp64k machine configuration
Hp64kTimers == 3

NextOneShot ==
    \/ Unbounded(Hp64kTimersStart)
    \/ Unbounded(BeepW)
    \/ Unbounded(RegisterTimer({ "payload" }, { 0 }, OneShotDelays, { 0 },
                               Hp64kTimers + MaxTimers)
                 /\ sch.timers # << >>)
    \/ Unbounded(AdvanceTo(OneShotDurations, { 0, MaxLate }))

SpecOneShot == Init /\ [][NextOneShot]_vars

(***************************************************************************)
(* The konmedal68k under its scheduler: the scanline timer, which is armed *)
(* again from inside its firing, and timers whose callback registers a     *)
(* timer.  Time is in scanlines.                                           *)
(***************************************************************************)
\* the control words written: interrupts off, IRQ3 on, IRQ3 and IRQ4 on
ControlDatas == { 0, 8, 24 }

\* the delays of the timers registered and of those their callbacks register
SpawnDelays == { 0, 7 }

\* the durations the machine runs on by, in scanlines
ScanDurations == { 50 }

NextScan ==
    \/ Unbounded(ScanTimerStart)
    \/ Unbounded(ControlW(ControlDatas))
    \/ Unbounded(RegisterTimer({ "spawn" }, SpawnDelays, SpawnDelays, { 0 },
                               1 + MaxTimers)
                 /\ sch.timers # << >>)
    \/ Unbounded(AdvanceTo(ScanDurations, { 0 }))

SpecScan == Init /\ [][NextScan]_vars

(***************************************************************************)
(* The dw_keyboard under its scheduler: the reset line with its timer, and *)
(* timers, registered before the machine runs, that are cancelled through  *)
(* handles of all kinds.                                                   *)
(***************************************************************************)
\* the handles a cancel is called with: those of the timers registered, and
\* before and after them two that are unknown
CancelHandles == 0..(MaxTimers + 2)

\* the durations the machine runs on by, in milliseconds
KbdDurations == { 60 }

NextKbd ==
    \/ Unbounded(KbdStart)
    \/ Unbounded(ResetW)
    \/ Unbounded(RegisterTimer({ "payload" }, { 0 }, { 20 }, { 0, 25 },
                               1 + MaxTimers)
                 /\ sch.timers # << >> /\ sch.now = 0)
    \/ Unbounded(CancelTimer(CancelHandles))
    \/ Unbounded(AdvanceTo(KbdDurations, { MaxLate }))

SpecKbd == Init /\ [][NextKbd]_vars

(***************************************************************************)
(* The 68000 of the konmedal68k on its address space: words and long words *)
(* are read and written at the work RAM, the control register, the input   *)
(* ports and the YMZ280B, whose 8-bit handlers are wired to D15-D8.        *)
(***************************************************************************)
\* the addresses accessed: 0x400000 (RAM), 0x800000 (control), 0x800004
\* (DSW, followed by IN1), 0x880000 and 0x880002 (YMZ280B)
WideAddrs == { 4194304, 8388608, 8388612, 8912896, 8912898 }

\* the addresses written
WideWriteAddrs == { 4194304, 8388608, 8912896 }

\* the sizes of an access, in bytes
WideSizes == { 2, 4 }

\* the data written: 0x0a181c08 and 0x01020304
WideDatas == { 169352200, 16909060 }

NextWide ==
    \/ Unbounded(MapKzaurus)
    \/ Unbounded(WideRead(WideAddrs, WideSizes) /\ bus.amap = kzaurus_main)
    \/ Unbounded(WideWrite(WideWriteAddrs, WideSizes, WideDatas)
                 /\ bus.amap = kzaurus_main)

SpecWide == Init /\ [][NextWide]_vars

(***************************************************************************)
(* SpecCbus: the MPU-401 raises and lowers its IRQ output while other      *)
(* cards drive the interrupt lines of the slot.                            *)
(***************************************************************************)
NextCbus ==
    \/ Unbounded(MpuIrqOut)
    \/ Unbounded(SlotIntW)

SpecCbus == Init /\ [][NextCbus]_vars

(***************************************************************************)
(* The bring-up of a machine: construction, resolve_all, start_all.        *)
(***************************************************************************)
NextGraph ==
    \/ Unbounded(AddDevice)
    \/ Unbounded(ResolveAll)
    \/ Unbounded(StartAll)

SpecGraph == Init /\ [][NextGraph]_vars

(***************************************************************************)
(* Vocabulary of the claims.  A step is a run of one handler: io' tells    *)
(* which handler ran and what it did, hp / cpu are the state it started    *)
(* from and hp' / cpu' the state it returned in.                           *)
(***************************************************************************)
\* the step is hp64k_flp_drq_w(1)
DrqAsserted == io'.op = << "hp64k_flp_drq_w", 1 >>

\* the FDC data register accesses of the handler that ran
DataIo(t) == SelectSeq(t.fdc_io, LAMBDA x : x[1] \in { "data_r", "data_w" })

\* the step left the floppy I/F as it was, but for m_floppy_drq following the line
DrqIgnored ==
    /\ hp' = [ hp EXCEPT !.m_floppy_drq = TRUE ]
    /\ cpu' = cpu
    /\ io'.dmar_calls = << >>
    /\ io'.fdc_io = << >>
    /\ io'.path = << >>

\* the control register selects DMA writes (to the FDC)
DmaWriteDir == BIT(hp.m_floppy_if_ctrl, 6)

(***************************************************************************)
(* C1 (as claimed): in either DMA direction a DRQ assertion arriving in    *)
(* IDLE with DMA-enable set leaves IDLE and asserts the DMA-request line   *)
(* exactly once, and the same assertion delivered again before the CPU has *)
(* answered is ignored and only logged.                                    *)
(***************************************************************************)
C1_BothDirections ==
    [][ /\ (DrqAsserted /\ hp.m_floppy_if_state = HP64K_FLPST_IDLE
                        /\ hp.m_floppy_dmaen /\ hp.m_floppy_drq = FALSE)
            => /\ hp'.m_floppy_if_state # HP64K_FLPST_IDLE
               /\ io'.dmar_calls = << 1 >>
        /\ (DrqAsserted /\ io.op = << "hp64k_flp_drq_w", 1 >>
                        /\ io.path # << >>
                        /\ hp.m_floppy_if_state
                               \in { HP64K_FLPST_DMAWR1, HP64K_FLPST_DMARD1 })
            => /\ DrqIgnored
               /\ io'.logged # << >>
      ]_vars

(***************************************************************************)
(* C1 (amended): with DMA-enable set, a DRQ assertion arriving in IDLE     *)
(* leaves IDLE; in the write direction it asserts the DMA-request line     *)
(* exactly once (DMAWR1); in the read direction it reads the first FDC     *)
(* byte without asserting the line (DMARD1) and it is the next DRQ         *)
(* assertion that reads the second byte and asserts the line exactly once  *)
(* (DMARD2).  A DRQ assertion delivered again once the line is asserted    *)
(* and before the CPU has answered is ignored and only logged.             *)
(***************************************************************************)
C1_DrqStartsCycle ==
    [][ /\ (DrqAsserted /\ hp.m_floppy_if_state = HP64K_FLPST_IDLE
                        /\ hp.m_floppy_dmaen /\ DmaWriteDir)
            => /\ hp'.m_floppy_if_state = HP64K_FLPST_DMAWR1
               /\ io'.dmar_calls = << 1 >>
               /\ cpu'.dmar = 1
               /\ io'.fdc_io = << >>
        /\ (DrqAsserted /\ hp.m_floppy_if_state = HP64K_FLPST_IDLE
                        /\ hp.m_floppy_dmaen /\ ~DmaWriteDir)
            => /\ hp'.m_floppy_if_state = HP64K_FLPST_DMARD1
               /\ io'.dmar_calls = << >>
               /\ cpu'.dmar = cpu.dmar
               /\ Len(DataIo(io')) = 1
        /\ (DrqAsserted /\ hp.m_floppy_if_state = HP64K_FLPST_DMARD1)
            => /\ hp'.m_floppy_if_state = HP64K_FLPST_DMARD2
               /\ io'.dmar_calls = << 1 >>
               /\ cpu'.dmar = 1
               /\ Len(DataIo(io')) = 1
        /\ (DrqAsserted /\ io.op = << "hp64k_flp_drq_w", 1 >>
                        /\ io.dmar_calls = << 1 >>)
            => /\ DrqIgnored
               /\ io'.logged = << "DRQ with floppy state" >>
      ]_vars

\* a second DRQ assertion has just been ignored while the request of a DMA
\* read was waiting for the CPU
C1_Witness ==
    /\ io.op = << "hp64k_flp_drq_w", 1 >>
    /\ io.logged = << "DRQ with floppy state" >>
    /\ hp.m_floppy_if_state = HP64K_FLPST_DMARD2
    /\ cpu.dmar = 1

(***************************************************************************)
(* C2 (as claimed): a DRQ assertion received in any state other than IDLE  *)
(* changes nothing: sequencer state, latches, DMA-request line and FDC     *)
(* data register are left alone.                                           *)
(***************************************************************************)
C2_AnyNonIdleDrqIgnored ==
    [][ (DrqAsserted /\ hp.m_floppy_if_state # HP64K_FLPST_IDLE) => DrqIgnored ]_vars

(***************************************************************************)
(* C2 (amended): a DRQ assertion received while the sequencer waits for    *)
(* the CPU (DMAWR1 or DMARD2) is a protocol violation that is ignored:     *)
(* sequencer state, latches, DMA-request line and FDC data register are    *)
(* left unchanged, it is logged and nothing is retried.  In DMAWR2 and     *)
(* DMARD1 the DRQ assertion is the expected second half of the transfer    *)
(* and is served.                                                          *)
(***************************************************************************)
C2_DrqWhileCpuPending ==
    [][ /\ (DrqAsserted /\ hp.m_floppy_if_state
                               \in { HP64K_FLPST_DMAWR1, HP64K_FLPST_DMARD2 })
            => /\ DrqIgnored
               /\ io'.logged = << "DRQ with floppy state" >>
        /\ (DrqAsserted /\ hp.m_floppy_if_state
                               \in { HP64K_FLPST_DMAWR2, HP64K_FLPST_DMARD1 })
            => /\ hp'.m_floppy_if_state # hp.m_floppy_if_state
               /\ Len(DataIo(io')) = 1
               /\ io'.logged = << >>
      ]_vars

\* a DRQ assertion has just been dropped in DMAWR1
C2_Witness ==
    /\ io.op = << "hp64k_flp_drq_w", 1 >>
    /\ io.logged = << "DRQ with floppy state" >>
    /\ io.path = << >>
    /\ hp.m_floppy_if_state = HP64K_FLPST_DMAWR1

(***************************************************************************)
(* C3: the terminal-count access of a DMA cycle (a read of IC=2 in DMARD2, *)
(* a write of IC=2 in DMAWR1) clears DMA-enable, sets the DMA interrupt    *)
(* flag, bit 6 of the floppy status and bit 4 of the pending interrupts by *)
(* the time the access returns; the same access at IC=0 changes none of    *)
(* the four.                                                               *)
(***************************************************************************)
DmaAccess(ic) ==
    \/ io'.op = << "hp64k_flp_r", ic >> /\ hp.m_floppy_if_state = HP64K_FLPST_DMARD2
    \/ io'.op = << "hp64k_flp_w", ic >> /\ hp.m_floppy_if_state = HP64K_FLPST_DMAWR1

C3_TerminalCount ==
    [][ /\ DmaAccess(2)
            => /\ ~hp'.m_floppy_dmaen
               /\ hp'.m_floppy_dmai
               /\ BIT(hp'.m_floppy_status, 6)
               /\ BIT(hp'.m_irl_pending, 4)
        /\ DmaAccess(0)
            => /\ hp'.m_floppy_dmaen = hp.m_floppy_dmaen
               /\ hp'.m_floppy_dmai = hp.m_floppy_dmai
               /\ BIT(hp'.m_floppy_status, 6) = BIT(hp.m_floppy_status, 6)
               /\ BIT(hp'.m_irl_pending, 4) = BIT(hp.m_irl_pending, 4)
      ]_vars

\* a DMA read has just ended at terminal count
C3_Witness ==
    /\ io.op = << "hp64k_flp_r", 2 >>
    /\ io.path = << HP64K_FLPST_IDLE >>
    /\ ~hp.m_floppy_dmaen
    /\ hp.m_floppy_dmai
    /\ BIT(hp.m_irl_pending, 4)

(***************************************************************************)
(* C4: every DMA cycle exchanges exactly one 16-bit word.  Write: the CPU  *)
(* access in DMAWR1 (IC=0, or IC=2 at terminal count) sends the inverted   *)
(* MSB of the word it wrote to the FDC, and the next DRQ sends the         *)
(* inverted LSB of that same word.  Read: the word the CPU reads in DMARD2 *)
(* is made of the inverted bytes of two successive FDC data register       *)
(* reads, MSB first.                                                       *)
(***************************************************************************)
IfState == hp.m_floppy_if_state

C4_OneWordPerCycle ==
    [][ io'.op[1] # "machine_reset" =>
        /\ (io'.op[1] = "hp64k_flp_w" /\ io'.op[2] \in { 0, 2 }
                                     /\ IfState = HP64K_FLPST_DMAWR1)
            => /\ DataIo(io') = << << "data_w", NOT8(MSB(io'.data)) >> >>
               /\ hp'.m_floppy_in_latch_lsb = LSB(io'.data)
               /\ IfState' = HP64K_FLPST_DMAWR2
        \* the LSB waits in the latch
        /\ (IfState = HP64K_FLPST_DMAWR2 /\ IfState' = HP64K_FLPST_DMAWR2)
            => /\ hp'.m_floppy_in_latch_lsb = hp.m_floppy_in_latch_lsb
               /\ DataIo(io') = << >>
        /\ (IfState = HP64K_FLPST_DMAWR2 /\ IfState' # HP64K_FLPST_DMAWR2)
            => /\ DataIo(io') = << << "data_w", NOT8(hp.m_floppy_in_latch_lsb) >> >>
               /\ IfState' = HP64K_FLPST_IDLE
        /\ (IfState = HP64K_FLPST_IDLE /\ IfState' = HP64K_FLPST_DMARD1)
            => /\ Len(DataIo(io')) = 1
               /\ DataIo(io')[1][1] = "data_r"
               /\ hp'.m_floppy_out_latch_msb = NOT8(DataIo(io')[1][2])
        \* the MSB waits in the latch
        /\ (IfState = HP64K_FLPST_DMARD1 /\ IfState' = HP64K_FLPST_DMARD1)
            => /\ hp'.m_floppy_out_latch_msb = hp.m_floppy_out_latch_msb
               /\ DataIo(io') = << >>
        /\ (IfState = HP64K_FLPST_DMARD1 /\ IfState' # HP64K_FLPST_DMARD1)
            => /\ Len(DataIo(io')) = 1
               /\ DataIo(io')[1][1] = "data_r"
               /\ hp'.m_floppy_out_latch_lsb = NOT8(DataIo(io')[1][2])
               /\ hp'.m_floppy_out_latch_msb = hp.m_floppy_out_latch_msb
               /\ IfState' = HP64K_FLPST_DMARD2
        \* the word waits for the CPU
        /\ (IfState = HP64K_FLPST_DMARD2 /\ IfState' = HP64K_FLPST_DMARD2)
            => /\ hp'.m_floppy_out_latch_msb = hp.m_floppy_out_latch_msb
               /\ hp'.m_floppy_out_latch_lsb = hp.m_floppy_out_latch_lsb
               /\ DataIo(io') = << >>
        /\ (IfState = HP64K_FLPST_DMARD2 /\ IfState' # HP64K_FLPST_DMARD2)
            => /\ io'.op[1] = "hp64k_flp_r"
               /\ io'.ret = hp.m_floppy_out_latch_msb * 256
                            + hp.m_floppy_out_latch_lsb
               /\ DataIo(io') = << >>
               /\ IfState' = HP64K_FLPST_IDLE
      ]_vars

(***************************************************************************)
(* C5: machine_reset excepted, the sequencer only moves along the edges of *)
(* the two cycles IDLE -> DMAWR1 -> DMAWR2 -> IDLE and                     *)
(* IDLE -> DMARD1 -> DMARD2 -> IDLE; in particular a change of the         *)
(* direction bit in the middle of a cycle never takes it from a write      *)
(* state to a read state or back.                                          *)
(***************************************************************************)
CycleEdges ==
    { << HP64K_FLPST_IDLE,   HP64K_FLPST_DMAWR1 >>,
      << HP64K_FLPST_DMAWR1, HP64K_FLPST_DMAWR2 >>,
      << HP64K_FLPST_DMAWR2, HP64K_FLPST_IDLE >>,
      << HP64K_FLPST_IDLE,   HP64K_FLPST_DMARD1 >>,
      << HP64K_FLPST_DMARD1, HP64K_FLPST_DMARD2 >>,
      << HP64K_FLPST_DMARD2, HP64K_FLPST_IDLE >> }

\* the states the sequencer went through during the step
StepPath == << IfState >> \o io'.path

WriteStates == { HP64K_FLPST_DMAWR1, HP64K_FLPST_DMAWR2 }

ReadStates == { HP64K_FLPST_DMARD1, HP64K_FLPST_DMARD2 }

C5_OnlyCycleEdges ==
    [][ io'.op[1] # "machine_reset" =>
        /\ \A i \in 1..(Len(StepPath) - 1) :
               << StepPath[i], StepPath[i + 1] >> \in CycleEdges
        /\ IfState' = StepPath[Len(StepPath)]
        /\ IfState \in WriteStates => IfState' \notin ReadStates
        /\ IfState \in ReadStates => IfState' \notin WriteStates
      ]_vars

\* the direction bit was changed from write to read in the middle of a DMA
\* write cycle, which went on as a write cycle
C5_Witness ==
    /\ io.op[1] = "hp64k_flp_w"
    /\ io.op[2] = 1
    /\ io.logged # << >>
    /\ ~BIT(hp.m_floppy_if_ctrl, 6)
    /\ hp.m_floppy_dmaen
    /\ io.path = << HP64K_FLPST_IDLE >>
    /\ io.fdc_io # << >>

(***************************************************************************)
(* C7: an out-of-sequence access to the floppy registers (IC=0 or IC=2 in  *)
(* a state that does not expect it, IC=3 in any state) is logged and       *)
(* dropped: sequencer state, data latches (the LSB waiting in DMAWR2       *)
(* included), DMA-enable, the DMA-request line and the interrupt flags are *)
(* what they were before it.                                               *)
(***************************************************************************)
OutOfSequence ==
    \/ /\ io'.op[1] = "hp64k_flp_r"
       /\ \/ io'.op[2] \in { 0, 2 } /\ IfState # HP64K_FLPST_DMARD2
          \/ io'.op[2] = 3
    \/ /\ io'.op[1] = "hp64k_flp_w"
       /\ \/ io'.op[2] \in { 0, 2 } /\ IfState # HP64K_FLPST_DMAWR1
          \/ io'.op[2] = 3

C7_OutOfSequenceDropped ==
    [][ OutOfSequence
            => /\ io'.logged # << >>
               /\ hp' = hp
               /\ cpu' = cpu
               /\ io'.fdc_io = << >>
      ]_vars

\* an out-of-sequence write of IC=0 has overwritten the LSB that waits in
\* DMAWR2 for the next DRQ
C7_Witness ==
    /\ io.op = << "hp64k_flp_w", 0 >>
    /\ io.logged # << >>
    /\ hp.m_floppy_if_state = HP64K_FLPST_DMAWR2

(***************************************************************************)
(* C6: the DMA sequencer moves only on its triggers (a DRQ assertion, a    *)
(* read or write of a floppy I/F register, machine_reset).  FDC INTRQ      *)
(* edges, the ready, index and write-protect callbacks of the drives, the  *)
(* keyboard-scan and line-sync timer ticks and the accesses to the other   *)
(* registers leave m_floppy_if_state, m_floppy_dmaen and the DMA-request   *)
(* line as they were.                                                      *)
(***************************************************************************)
FrameHandlers ==
    { "hp64k_flp_intrq_w", "hp64k_floppy0_rdy", "hp64k_floppy1_rdy",
      "hp64k_floppy_idx_cb", "hp64k_floppy_wpt_cb",
      "hp64k_kb_scan", "hp64k_line_sync",
      "hp64k_kb_r", "hp64k_deltat_r", "hp64k_deltat_w",
      "hp64k_irl_mask_w", "hp64k_slot_sel_w" }

SequencerTriggers ==
    { << "hp64k_flp_drq_w", 1 >>, << "machine_reset", 0 >> }
    \cup { << h, ic >> : h \in { "hp64k_flp_r", "hp64k_flp_w" }, ic \in 0..3 }

\* the step is a run of a handler (the other steps change the keys held)
HandlerRan == keys' = keys

SequencerMoved ==
    \/ hp'.m_floppy_if_state # hp.m_floppy_if_state
    \/ hp'.m_floppy_dmaen # hp.m_floppy_dmaen
    \/ cpu'.dmar # cpu.dmar

C6_OnlyOnTriggers ==
    [][ /\ (HandlerRan /\ io'.op[1] \in FrameHandlers)
            => /\ ~SequencerMoved
               /\ io'.dmar_calls = << >>
               /\ io'.path = << >>
        /\ SequencerMoved
            => /\ HandlerRan
               /\ io'.op \in SequencerTriggers
      ]_vars

\* the FDC has raised INTRQ while the word of a DMA read waited for the CPU
C6_Witness ==
    /\ io.op = << "hp64k_flp_intrq_w", 1 >>
    /\ hp.m_floppy_mdci
    /\ hp.m_floppy_if_state = HP64K_FLPST_DMARD2
    /\ hp.m_floppy_dmaen
    /\ cpu.dmar = 1

(***************************************************************************)
(* C8: a write of the main CPU through sound_w leaves IRQ0 of the audio    *)
(* CPU asserted when it returns; when the audio CPU accepts the interrupt, *)
(* audiocpu_irq_ack runs exactly once for that acceptance, the 0xff it     *)
(* returns is the vector the CPU gets, and the callback has cleared IRQ0.  *)
(***************************************************************************)
C8_SoundIrqPath ==
    [][ /\ snd'.op = "sound_w"
            => /\ snd'.irq0 = ASSERT_LINE
               /\ snd'.acks = snd.acks
        /\ snd'.op = "take_interrupt"
            => /\ snd.irq0 = ASSERT_LINE
               /\ snd'.acks = snd.acks + 1
               /\ snd'.vector = 255
               /\ snd'.irq0 = CLEAR_LINE
        /\ snd'.acks # snd.acks
            => snd'.op = "take_interrupt"
      ]_vars

\* the audio CPU has accepted the interrupt of a sound latch write
C8_Witness ==
    /\ snd.op = "take_interrupt"
    /\ snd.writes = 1
    /\ snd.acks = 1
    /\ snd.vector = 255
    /\ snd.irq0 = CLEAR_LINE

(***************************************************************************)
(* C9 (as claimed): hp64k_irq_callback returns 0xff00 | (m_irl_mask &      *)
(* m_irl_pending) for the IRL line and all-ones for any other line and     *)
(* leaves m_irl_pending, m_irl_mask and the CPU input line alone; a        *)
(* pending bit is cleared only by the register access of its source        *)
(* (keyboard read, delta-T read or write, floppy interrupt clear) or by    *)
(* the line of its source going low.                                       *)
(***************************************************************************)
\* the steps that may clear bit b of m_irl_pending
Clearers(b) ==
    CASE b = 0 -> { << "hp64k_kb_r", 0 >> }
      [] b = 2 -> { << "hp64k_deltat_r", 0 >>, << "hp64k_deltat_w", 0 >> }
      [] b = 4 -> { << "hp64k_flp_w", 1 >> }
      [] b = 5 -> { << "hp64k_txrdy_w", 0 >> }
      [] b = 6 -> { << "hp64k_rxrdy_w", 0 >> }
      [] b = 7 -> { << "hp64k_phi_int_w", 0 >> }
      [] OTHER -> { }

AckLeavesSource ==
    (HandlerRan /\ io'.op[1] = "hp64k_irq_callback")
        => /\ io'.ret = IF io'.op[2] = "HPHYBRID_IRL"
                        THEN 65280 + AND8(hp.m_irl_mask, hp.m_irl_pending)
                        ELSE -1
           /\ hp' = hp
           /\ cpu' = cpu

C9_OnlySourceClears ==
    [][ /\ AckLeavesSource
        /\ \A b \in 0..7 :
               (BIT(hp.m_irl_pending, b) /\ ~BIT(hp'.m_irl_pending, b))
                   => HandlerRan /\ io'.op \in Clearers(b)
      ]_vars

(***************************************************************************)
(* C9 (amended): hp64k_irq_callback returns 0xff00 | (m_irl_mask &         *)
(* m_irl_pending) for the IRL line and all-ones for any other line and     *)
(* leaves m_irl_pending, m_irl_mask and the CPU input line alone; a        *)
(* pending bit is cleared only by the register access of its source        *)
(* (keyboard read, delta-T read or write, write of the floppy control      *)
(* register), by the line of its source going low, or by machine_reset,    *)
(* which zeroes m_irl_pending.                                             *)
(***************************************************************************)
C9_OnlySourceOrResetClears ==
    [][ /\ AckLeavesSource
        /\ \A b \in 0..7 :
               (BIT(hp.m_irl_pending, b) /\ ~BIT(hp'.m_irl_pending, b))
                   => /\ HandlerRan
                      /\ io'.op \in Clearers(b) \cup { << "machine_reset", 0 >> }
      ]_vars

\* the CPU has acknowledged a keyboard interrupt, which is still pending
C9_Witness ==
    /\ io.op = << "hp64k_irq_callback", "HPHYBRID_IRL" >>
    /\ io.ret = 65280 + 1
    /\ BIT(hp.m_irl_pending, 0)
    /\ cpu.irl = 1

(***************************************************************************)
(* C10: of two overlapping ranges the one installed last answers the reads *)
(* of the overlap, and the one installed first still answers the reads of  *)
(* its addresses outside the other.  In crimfght_map the ports and the     *)
(* watchdog at 0x3f80-0x3f8b, installed after the range 0x2000-0x5fff of   *)
(* k052109_051960_r, answer the reads of their addresses, and every other  *)
(* address of 0x2000-0x5fff still reads through k052109_051960_r.          *)
(***************************************************************************)
\* a range installed after the j-th answers the reads of the address
Shadowed(j, a) ==
    \E k \in DOMAIN bus.amap :
        k > j /\ covers(bus.amap[k], a) /\ bus.amap[k].r # "none"

\* what answers the reads of 0x3f80-0x3f8b
CrimfghtPorts ==
    << "SYSTEM", "P1", "P2", "DSW2", "DSW3", "P3", "P4", "DSW1",
       "watchdog", "watchdog", "watchdog", "watchdog" >>

C10_LastInstalledWins ==
    /\ \A j \in DOMAIN bus.amap, a \in GenAddrs \cup CrimfghtAddrs :
           (covers(bus.amap[j], a) /\ bus.amap[j].r # "none" /\ ~Shadowed(j, a))
               => /\ resolve(bus.amap, a, "r") = bus.amap[j].r
                  /\ \A i \in 1..(j - 1) :
                         bus.amap[i].r # bus.amap[j].r
                             => resolve(bus.amap, a, "r") # bus.amap[i].r
    /\ bus.amap = crimfght_map
           => \A a \in 8192..24575 :
                  resolve(bus.amap, a, "r") =
                      IF a \in 16256..16267
                      THEN CrimfghtPorts[a - 16255]
                      ELSE "k052109_051960_r"

\* a mirror of the watchdog has been read through crimfght_map
C10_Witness ==
    /\ bus.amap = crimfght_map
    /\ bus.rd = [ addr |-> 16266, handler |-> "watchdog" ]

(***************************************************************************)
(* C11: mirror aliasing.  As stated for every range: for a range with base *)
(* address A and mirror mask M, an access at A|m reaches, for every subset *)
(* bit pattern m of M, the same handler with the same offset as an access  *)
(* at A.                                                                   *)
(***************************************************************************)
\* the subset bit patterns of a mirror mask
SubMasks(mirror) == { m \in 0..mirror : AndBits(m, mirror, 16) = m }

AccessKinds == { "r", "w" }

\* the address space is one built from MirrorRanges
OnMirrorAddrs == \A j \in DOMAIN bus.amap : bus.amap[j].end \in MirrorAddrs

C11_AliasesOfEveryRange ==
    OnMirrorAddrs =>
        \A j \in DOMAIN bus.amap, kind \in AccessKinds :
            \A A \in bus.amap[j].start..bus.amap[j].end :
                \A m \in SubMasks(bus.amap[j].mirror) :
                    /\ dispatch(bus.amap, A + m, kind).handler =
                           dispatch(bus.amap, A, kind).handler
                    /\ dispatch(bus.amap, A + m, kind).offset =
                           dispatch(bus.amap, A, kind).offset

(***************************************************************************)
(* C11, as it holds: every alias A|m of a range is matched by the range,   *)
(* and every alias that no range installed later answers reaches the       *)
(* handler of the range with the offset of A; two such aliases read the    *)
(* same byte, and a byte written through one is read back through the      *)
(* other (0x42 written at 0x18 of [0x10,0x10] mirrored on 0x0f is read at  *)
(* 0x10).  In crimfght_sound_map the four mirrored ranges answer exactly   *)
(* 0x8000-0x9fff, 0xa000-0xbfff, 0xc000-0xdfff and 0xe000-0xffff, with the *)
(* offsets address mod 0x800, mod 2, 0 and mod 16, and no address is       *)
(* covered by two ranges.                                                  *)
(***************************************************************************)
\* the range of crimfght_sound_map that answers the address and its offset
SoundRangeOf(a) ==
    IF a < 32768 THEN << 1, a >>
    ELSE IF a < 40960 THEN << 2, a % 2048 >>
    ELSE IF a < 49152 THEN << 3, a % 2 >>
    ELSE IF a < 57344 THEN << 4, 0 >>
    ELSE << 5, a % 16 >>

C11_MirrorAliases ==
    /\ OnMirrorAddrs =>
        \A j \in DOMAIN bus.amap, kind \in AccessKinds :
            \A A \in bus.amap[j].start..bus.amap[j].end :
                \A m \in SubMasks(bus.amap[j].mirror) :
                    LET d == dispatch(bus.amap, A + m, kind)
                        d0 == dispatch(bus.amap, A, kind)
                    IN  /\ j \in matches(bus.amap, A + m, kind)
                        /\ d.range = j
                               => /\ d.handler = handler_of(bus.amap[j], kind)
                                  /\ d.offset = A - bus.amap[j].start
                        /\ (d.range = j /\ d0.range = j)
                               => /\ d.offset = d0.offset
                                  /\ read_byte(bus, A + m).acc.data =
                                         read_byte(bus, A).acc.data
                                  /\ \A v \in BusBytes :
                                         /\ read_byte(write_byte(bus, A + m, v), A).acc.data = v
                                         /\ read_byte(write_byte(bus, A, v), A + m).acc.data = v
    /\ bus.amap = << map_entry(16, 16, 15, "h1", "h1") >>
           => read_byte(write_byte(bus, 24, 66), 16).acc.data = 66
    /\ (bus.amap = crimfght_sound_map /\ bus.acc = no_access)
           => \A a \in 0..65535 :
                  /\ { i \in DOMAIN bus.amap : covers(bus.amap[i], a) } =
                         { SoundRangeOf(a)[1] }
                  /\ dispatch(bus.amap, a, "r").range = SoundRangeOf(a)[1]
                  /\ dispatch(bus.amap, a, "r").offset = SoundRangeOf(a)[2]

\* 0x42 written through an alias of [0x10,0x10] mirrored on 0x0f has been
\* read at 0x10
C11_Witness ==
    /\ bus.amap = << map_entry(16, 16, 15, "h1", "h1") >>
    /\ << "h1", 0 >> \in DOMAIN bus.cells
    /\ bus.acc = [ kind |-> "r", addr |-> 16, handler |-> "h1", offset |-> 0,
                   data |-> 66 ]

(***************************************************************************)
(* C12: an access that no installed range answers returns the fill value   *)
(* of the space when it is a read and is discarded when it is a write; it  *)
(* runs no handler and changes nothing but the record of the last access:  *)
(* the driver object, the CPU lines, the drives, the bytes held by the     *)
(* handlers, the installed ranges and the fill value are as before.  In    *)
(* cpu_io_map of the hp64k the                                             *)
(* addresses PA=1, PA=7 with IC=0 or IC=3 and PA=15 are unmapped, as are   *)
(* the writes of PA=0 and the reads of PA=10 and PA=12; of the window      *)
(* 0xe0d0-0xe0d3 of the MPU-401 only 0xe0d0 is mapped.                     *)
(***************************************************************************)
\* the step is an access of the bus, and no range answers it
UnmappedAccess == bus'.acc # bus.acc /\ bus'.acc.handler = "unmapped"

\* the accesses of IoAddrs that cpu_io_map leaves unmapped, as << kind, address >>
IoUnmapped ==
    ({ "r", "w" } \X { 4, 7, 28, 31, 63 }) \cup { << "w", 0 >>, << "r", 40 >>, << "r", 48 >> }

C12_UnmappedAccess ==
    [][ /\ UnmappedAccess
            => /\ bus'.acc.kind = "r" => bus'.acc.data = bus.fill
               /\ bus' = [ bus EXCEPT !.acc = bus'.acc ]
               /\ UNCHANGED << hp, cpu, drv, io, keys, snd >>
        /\ (bus'.acc # bus.acc /\ bus.amap = cpu_io_map)
            => /\ bus'.acc.addr \in IoAddrs
               /\ (bus'.acc.handler = "unmapped")
                      <=> (<< bus'.acc.kind, bus'.acc.addr >> \in IoUnmapped)
               /\ bus'.acc.handler # "unmapped" => io'.op[1] = bus'.acc.handler
        /\ (bus'.acc # bus.acc /\ OnMpuSpace)
            => (bus'.acc.handler = "unmapped") <=> (bus'.acc.addr # 57552)
      ]_vars

\* the keyboard interrupt is pending and the floppy interface is in the
\* middle of a DMA read when a read of PA=7, IC=0 returns the fill value
C12_Witness ==
    /\ bus.amap = cpu_io_map
    /\ bus.acc = [ kind |-> "r", addr |-> 28, handler |-> "unmapped",
                   offset |-> -1, data |-> bus.fill ]
    /\ hp.m_floppy_if_state = HP64K_FLPST_DMARD1
    /\ bus.fill = 0

(***************************************************************************)
(* C13: bank switching.  After banking_callback is called with data bit    *)
(* 5 = b, the bank0000 device adds b * 0x400 until the next call, and      *)
(* every access of the main CPU to 0x0000-0x03ff made in between goes to   *)
(* address b * 0x400 + address of the bank0000 space: to the work RAM for  *)
(* b = 0 and to the palette RAM for b = 1, at the offset of the address,   *)
(* leaving the bytes of the other bank alone.  The switch is not           *)
(* retroactive: banking_callback changes neither the bytes held by the     *)
(* two banks nor the record of the access made before it, which was        *)
(* completed against the bank selected when it was dispatched.             *)
(***************************************************************************)
\* bit 5 of the data of the last call of banking_callback (0 before any)
SelectedBank == IF bus.crim.lmul = -1 THEN 0 ELSE BitOf(bus.crim.lmul, 5)

\* the step is an access of the main CPU to the bank window
WindowAccess ==
    /\ bus'.acc # bus.acc
    /\ bus'.crim = bus.crim
    /\ bus.amap = crimfght_map
    /\ bus'.acc.addr \in 0..1023

\* the bytes held by the handlers, but for the one at the key
CellsBut(cells, key) == [ k \in DOMAIN cells \ { key } |-> cells[k] ]

C13_BankSwitch ==
    [][ /\ bus.crim.bank0000 = SelectedBank * 1024
        /\ WindowAccess =>
               LET a == bus'.acc.addr
                   h == IF SelectedBank = 0 THEN "workram" ELSE "palette"
               IN  /\ amap8(bus.crim, a) = SelectedBank * 1024 + a
                   /\ bus'.acc.handler = h
                   /\ bus'.acc.offset = a
                   /\ bus'.acc.kind = "r"
                          => /\ bus'.acc.data = cell(bus.cells, h, a)
                             /\ bus'.cells = bus.cells
                   /\ bus'.acc.kind = "w"
                          => /\ cell(bus'.cells, h, a) = bus'.acc.data
                             /\ CellsBut(bus'.cells, << h, a >>) =
                                    CellsBut(bus.cells, << h, a >>)
        /\ bus'.crim # bus.crim
               => /\ bus'.crim.bank0000 = BitOf(bus'.crim.lmul, 5) * 1024
                  /\ bus'.cells = bus.cells
                  /\ bus'.acc = bus.acc
                  /\ bus'.amap = bus.amap
      ]_vars

\* 0x24 has been written at 0x0000 of the work RAM and 0x42 has been read at
\* 0x0000 of the palette RAM
C13_Witness ==
    /\ bus.crim.m_woco = 1
    /\ cell(bus.cells, "workram", 0) = 36
    /\ bus.acc = [ kind |-> "r", addr |-> 0, handler |-> "palette", offset |-> 0,
                   data |-> 66 ]

(***************************************************************************)
(* C14: line propagation is synchronous and late-binding consistent.  When *)
(* the source gives a line a state, every connected destination has been   *)
(* invoked with it, in the order of connection, when the call returns; a   *)
(* destination connected afterwards has the current state of the line when *)
(* the connection returns.  In the hp64k every call of hp64k_txd_w,        *)
(* hp64k_dtr_w and hp64k_rts_w has invoked the RS232 port with the state   *)
(* (RTS forced to 0 in full duplex), and the USART before it when the      *)
(* loopback relay is closed, when it returns; a write of the loopback      *)
(* register that closes the relay has invoked the RXD, DSR and CTS inputs  *)
(* of the USART with the current TXD, DTR and RTS states when it returns.  *)
(***************************************************************************)
\* every connected destination has the state of the line
WireConsistent(l) ==
    \A i \in DOMAIN l.dests : l.input[l.dests[i]] = l.state

\* the destinations that are not connected to the line
Unconnected(l) == { d \in WireDests : \A i \in DOMAIN l.dests : l.dests[i] # d }

\* the step is a call of the line handler h of the USART side
SerialStep(h) == wire' = wire /\ keys' = keys /\ io'.op[1] = h

\* the calls a handler makes to hand the state of a USART output over
Handed(uart_in, rs232_in, state) ==
    IF hp.m_loopback
    THEN << << "uart", uart_in, state >>, << "rs232", rs232_in, state >> >>
    ELSE << << "rs232", rs232_in, state >> >>

C14_LinePropagation ==
    [][ /\ (wire' # wire /\ wire'.op[1] = "assert")
            => /\ wire'.state = wire'.op[2]
               /\ wire'.dests = wire.dests
               /\ wire'.log = [ i \in DOMAIN wire.dests |->
                                    << wire.dests[i], wire'.state >> ]
               /\ WireConsistent(wire')
               /\ \A d \in Unconnected(wire) : wire'.input[d] = wire.input[d]
        /\ (wire' # wire /\ wire'.op[1] = "connect")
            => /\ wire'.dests = Append(wire.dests, wire'.op[2])
               /\ wire'.state = wire.state
               /\ wire'.input[wire'.op[2]] = wire.state
               /\ WireConsistent(wire')
               /\ \A d \in WireDests \ { wire'.op[2] } :
                      wire'.input[d] = wire.input[d]
        /\ SerialStep("hp64k_txd_w")
            => /\ io'.line_calls = Handed("rxd", "txd", io'.op[2])
               /\ drv'.rs232.txd = io'.op[2]
               /\ hp.m_loopback => drv'.uart.rxd = io'.op[2]
               /\ hp'.m_txd_state = (io'.op[2] # 0)
        /\ SerialStep("hp64k_dtr_w")
            => /\ io'.line_calls = Handed("dsr", "dtr", io'.op[2])
               /\ drv'.rs232.dtr = io'.op[2]
               /\ hp.m_loopback => drv'.uart.dsr = io'.op[2]
               /\ hp'.m_dtr_state = (io'.op[2] # 0)
        /\ SerialStep("hp64k_rts_w")
            => LET state == IF BIT(io'.data, 0) THEN 0 ELSE io'.op[2]
               IN  /\ io'.line_calls = Handed("cts", "rts", state)
                   /\ drv'.rs232.rts = state
                   /\ hp.m_loopback => drv'.uart.cts = state
                   /\ hp'.m_rts_state = (state # 0)
        /\ (SerialStep("hp64k_loopback_w") /\ BIT(io'.data, 11))
            => /\ hp'.m_loopback
               /\ io'.line_calls =
                      << << "uart", "rxd", LineOf(hp.m_txd_state) >>,
                         << "uart", "dsr", LineOf(hp.m_dtr_state) >>,
                         << "uart", "cts", LineOf(hp.m_rts_state) >> >>
               /\ drv'.uart.rxd = LineOf(hp.m_txd_state)
               /\ drv'.uart.dsr = LineOf(hp.m_dtr_state)
               /\ drv'.uart.cts = LineOf(hp.m_rts_state)
               /\ drv'.rs232 = drv.rs232
      ]_vars

\* the relay has just been closed while TXD was low and the port held RXD
\* high: the USART has got the low TXD on its RXD input
C14_Witness ==
    /\ io.op[1] = "hp64k_loopback_w"
    /\ hp.m_loopback
    /\ ~hp.m_txd_state
    /\ drv.rs232.txd = 0
    /\ drv.rs232.rxd = 1
    /\ io.line_calls[1] = << "uart", "rxd", 0 >>

(***************************************************************************)
(* C15: no callback sees the floppy interface in the middle of a register  *)
(* write.  Every callback the FDC makes from inside a write of IC=1 (from  *)
(* soft_reset(), write() or read()) finds the control register, the DMA    *)
(* enable and the two interrupt flags either all as they were before the   *)
(* write or all as the write leaves them, never a mix.                     *)
(***************************************************************************)
\* the step is a write of IC=1
CtrlWrite == keys' = keys /\ wire' = wire /\ io'.op = << "hp64k_flp_w", 1 >>

\* the control register, the DMA enable and the interrupt flags the write
\* of IC=1 with the data establishes
RegsWritten(data) ==
    [ ctrl |-> MSB(data), dmaen |-> BIT(MSB(data), 5),
      dmai |-> IF BIT(MSB(data), 7) THEN FALSE ELSE hp.m_floppy_dmai,
      mdci |-> IF BIT(MSB(data), 7) THEN FALSE ELSE hp.m_floppy_mdci ]

C15_NoMidUpdateView ==
    [][ CtrlWrite =>
            \A i \in DOMAIN io'.seen :
                \/ io'.seen[i] = if_regs(hp)
                \/ io'.seen[i] = RegsWritten(io'.data)
      ]_vars

\* DMA was enabled for reading, the write of IC=1 switches DMA off and the
\* direction to writing, the FDC raises DRQ inside write(): the callback
\* has started a DMA write cycle
C15_Witness ==
    /\ io.op = << "hp64k_flp_w", 1 >>
    /\ io.data = 76 * 256 + 255
    /\ Len(io.seen) = 1
    /\ io.seen[1].ctrl = 76
    /\ io.seen[1].dmaen
    /\ ~hp.m_floppy_dmaen
    /\ hp.m_floppy_if_state = HP64K_FLPST_DMAWR1
    /\ cpu.dmar = 1

(***************************************************************************)
(* The order of the firings.                                               *)
(***************************************************************************)
\* the step ran the machine on to a later time
Advanced == sch'.now > sch.now

\* the firings of log are in the order of their scheduled times, and those of
\* one scheduled time in the order of the registration of their timers
InFireOrder(log) ==
    \A i, j \in DOMAIN log :
        i < j => \/ log[i].at < log[j].at
                 \/ log[i].at = log[j].at /\ log[i].handle < log[j].handle

\* every timer of s that is due at target fires in log at its scheduled time
AllDueFired(s, target, log) ==
    \A h \in due(s, target) :
        \E i \in DOMAIN log : log[i].handle = h /\ log[i].at = s.timers[h].fire

\* where the keyboard scan and the line sync are due at one instant, the
\* keyboard scan runs first
KbScanBeforeLineSync(log) ==
    \A i, j \in DOMAIN log :
        /\ log[i].cb = "hp64k_kb_scan"
        /\ log[j].cb = "hp64k_line_sync"
        /\ log[i].at = log[j].at
        => i < j

\* C16: advance_to fires every due timer, in non-decreasing order of the
\* fire times and, among the timers of one fire time, in the order of their
\* registration, which leaves one sequence of callbacks only for the timers
\* registered; when the keyboard scan timer and the line sync timer of the
\* hp64k are due at the same instant, hp64k_kb_scan runs before
\* hp64k_line_sync.
C16_FireOrder ==
    [][ Advanced =>
          /\ InFireOrder(sch'.fired)
          /\ AllDueFired(sch, sch'.now, sch'.fired)
          /\ KbScanBeforeLineSync(sch'.fired) ]_vars

\* the keyboard scan and the line sync fired at one instant, more than once
C16_Witness ==
    \E i, j \in DOMAIN sch.fired :
        /\ i + 1 < j
        /\ sch.fired[i].cb = "hp64k_line_sync"
        /\ sch.fired[j].cb = "hp64k_line_sync"
        /\ sch.fired[j - 1].cb = "hp64k_kb_scan"
        /\ sch.fired[j - 1].at = sch.fired[j].at
        /\ sch.fired[j].ran > sch.fired[j].at

(***************************************************************************)
(* Periodic timers.                                                        *)
(***************************************************************************)
\* the firings of the timer of handle h among the first i of log
FiringsOf(log, h, i) == Cardinality({ m \in 1..i : log[m].handle = h })

\* C19: a periodic timer of period P that was armed for the time first is
\* scheduled, after k - 1 firings, for first + (k - 1) * P, and its k-th
\* firing is recorded with that scheduled time, however late the callbacks
\* ran: the time a callback ran does not enter the re-arming (the 100 Hz and
\* the 50 Hz timer of the hp64k).
C19_NoDrift ==
    \A h \in DOMAIN sch.timers :
        LET t == sch.timers[h]
            n == FiringsOf(sch.fired, h, Len(sch.fired))
        IN  t.period > 0 =>
              /\ t.fire = t.first + t.count * t.period
              /\ n <= t.count
              /\ \A i \in DOMAIN sch.fired :
                     sch.fired[i].handle = h =>
                         sch.fired[i].at =
                             t.first
                             + (t.count - n + FiringsOf(sch.fired, h, i) - 1)
                               * t.period

\* the line sync timer has fired five times or more, the last times late
C19_Witness ==
    \E i \in DOMAIN sch.fired :
        /\ sch.fired[i].cb = "hp64k_line_sync"
        /\ sch.fired[i].ran > sch.fired[i].at
        /\ FiringsOf(sch.fired, sch.fired[i].handle, i) >= 3
        /\ sch.timers[sch.fired[i].handle].period = linesync_timer_period
        /\ sch.timers[sch.fired[i].handle].count >= 5

(***************************************************************************)
(* One-shot timers.                                                        *)
(***************************************************************************)
\* the one-shot timers of s
OneShots(s) == { h \in DOMAIN s.timers : s.timers[h].period = 0 }

\* the position in log of the one firing of the timer of handle h
FiringAt(log, h) == CHOOSE i \in DOMAIN log : log[i].handle = h

\* the beep timer of the hp64k
BeepTimer(s) == CHOOSE h \in DOMAIN s.timers : s.timers[h].cb = "hp64k_beeper_off"

\* C17: a step of advance_to fires every one-shot timer that is armed for a
\* time at or before the target exactly once, the one of the shorter delay
\* before the one of the longer delay, and leaves it unarmed; a one-shot timer
\* that is not armed, because it has fired already or was never armed, does
\* not fire.  hp64k_beep_w with an even offset turns the beeper on and arms
\* the beep timer for 130 ms later; the timer fires hp64k_beeper_off once for
\* that arming, which turns the beeper off, and the beeper stays on while the
\* timer is armed.
C17_OneShotOnce ==
    [][ /\ Advanced =>
             /\ \A h \in OneShots(sch) :
                    IF h \in due(sch, sch'.now)
                    THEN /\ FiringsOf(sch'.fired, h, Len(sch'.fired)) = 1
                         /\ ~sch'.timers[h].enabled
                         /\ sch'.timers[h].count = 1
                    ELSE /\ FiringsOf(sch'.fired, h, Len(sch'.fired)) = 0
                         /\ sch'.timers[h] = sch.timers[h]
             /\ \A g, h \in OneShots(sch) \cap due(sch, sch'.now) :
                    sch.timers[g].fire < sch.timers[h].fire =>
                        FiringAt(sch'.fired, g) < FiringAt(sch'.fired, h)
             /\ LET b == BeepTimer(sch)
                IN  IF b \in due(sch, sch'.now)
                    THEN drv'.beeper = 0
                    ELSE drv'.beeper = drv.beeper
        /\ io'.op[1] = "hp64k_beep_w" /\ io'.op[2] % 2 = 0 =>
             LET b == BeepTimer(sch)
             IN  /\ drv'.beeper = 1
                 /\ sch'.timers[b].enabled
                 /\ sch'.timers[b].fire = sch.now + 130
                 /\ sch'.timers[b].count = 0
        /\ sch.timers # << >> =>
             LET b == BeepTimer(sch)
             IN  sch.timers[b].enabled => drv.beeper = 1 /\ sch.timers[b].count = 0
      ]_vars

\* two one-shot timers of different delays and the beep timer fired in one
\* advance_to, which turned the beeper off, after an advance_to in which the
\* beep timer was armed and not due
C17_Witness ==
    /\ drv.beeper = 0
    /\ sch.now > 130
    /\ \E i, j, k \in DOMAIN sch.fired :
           /\ sch.fired[i].cb = "payload"
           /\ sch.fired[j].cb = "payload"
           /\ sch.fired[i].at < sch.fired[j].at
           /\ sch.fired[k].cb = "hp64k_beeper_off"
           /\ sch.fired[k].at = 130

(***************************************************************************)
(* Timers registered and armed again from inside a firing.                 *)
(***************************************************************************)
\* every firing of log is followed by one of a later scheduled time, or of
\* the same scheduled time and of a timer registered later
FireOrderKept(log) ==
    \A i \in 1..(Len(log) - 1) :
        \/ log[i].at < log[i + 1].at
        \/ log[i].at = log[i + 1].at /\ log[i].handle < log[i + 1].handle

\* the scanline timer, armed again inside its firing, fired in log for every
\* scanline from the one it was armed for in s up to target
EveryScanlineFired(s, target, log) ==
    \A h \in DOMAIN s.timers :
        s.timers[h].cb = "scanline" /\ s.timers[h].enabled =>
            \A t \in s.timers[h].fire..target :
                \E i \in DOMAIN log :
                    /\ log[i].handle = h
                    /\ log[i].at = t
                    /\ log[i].param =
                           (s.timers[h].param + t - s.timers[h].fire)
                           % screen_height

\* the timer a firing of log registered from inside its callback for a time
\* at or before target fired in log too, after the firing that registered it
EverySpawnFired(s, target, log) ==
    \A i \in DOMAIN log :
        log[i].cb = "spawn" /\ log[i].ran + log[i].param <= target =>
            \E j \in DOMAIN log :
                /\ j > i
                /\ log[j].handle > Len(s.timers)
                /\ log[j].cb = "payload"
                /\ log[j].at = log[i].ran + log[i].param

\* C18: a timer that is registered or armed again from inside a firing
\* callback for a time at or before the target of the advance_to under way
\* fires within that advance_to, in fire-time order with the timers that were
\* due already, and when advance_to returns no enabled timer with a fire time
\* at or before the target is left.
C18_FiresInSameAdvance ==
    [][ Advanced =>
          /\ EveryScanlineFired(sch, sch'.now, sch'.fired)
          /\ EverySpawnFired(sch, sch'.now, sch'.fired)
          /\ FireOrderKept(sch'.fired)
          /\ due(sch', sch'.now) = {} ]_vars

\* the scanline timer has fired for scanline 240, which raised IRQ3, and one
\* advance_to fired it for scanline 255, which raised IRQ4, and fired a timer
\* together with the timer its callback registered
C18_Witness ==
    /\ dev.kon.irq3 = ASSERT_LINE
    /\ dev.kon.irq4 = ASSERT_LINE
    /\ \E j, k \in DOMAIN sch.fired :
           /\ sch.fired[k].cb = "scanline" /\ sch.fired[k].param = 255
           /\ sch.fired[j].cb = "spawn" /\ sch.fired[j].param > 0
           /\ j < Len(sch.fired)
           /\ \E m \in (j + 1)..Len(sch.fired) :
                  /\ sch.fired[m].cb = "payload"
                  /\ sch.fired[m].at = sch.fired[j].at + sch.fired[j].param

(***************************************************************************)
(* Cancelling.                                                             *)
(***************************************************************************)
\* the timers of s but the one of handle h
TimersBut(s, h) == [ g \in DOMAIN s.timers \ { h } |-> s.timers[g] ]

\* the handle of no timer that is armed: the timer has fired and was not
\* armed since, was never armed, was cancelled, or there is no such timer
NothingToCancel(s, h) == h \notin DOMAIN s.timers \/ ~s.timers[h].enabled

\* the reset timer of the dw_keyboard
ResetTimer(s) == CHOOSE h \in DOMAIN s.timers : s.timers[h].cb = "device_timer"

\* reset_w(1) called in the state at hand returns with the reset timer
\* disabled and the reset line of the MCU released, and touches nothing else
ResetReleaseSucceeds ==
    sch.timers # << >> =>
        LET w == reset_w(World("reset_w", 1), 1)
            r == ResetTimer(sch)
        IN  /\ ~w.sch.timers[r].enabled
            /\ w.sch.timers[r].fire = sch.timers[r].fire
            /\ TimersBut(w.sch, r) = TimersBut(sch, r)
            /\ w.sch.now = sch.now
            /\ w.sch.fired = sch.fired
            /\ w.dev.kbd.mcu_reset = CLEAR_LINE

\* C20: a cancel through the handle of a timer that has fired already (a
\* one-shot), that is not armed, or through a handle no timer has, changes
\* nothing: no callback fires and every timer keeps its fire time, its period
\* and its enabled flag; a cancel of an armed timer leaves every other timer as
\* it was.  reset_w(1) of the dw_keyboard, which disables the reset timer,
\* does so in every state: with the timer armed, not armed, or fired.
C20_CancelNoOp ==
    /\ [](ResetReleaseSucceeds)
    /\ [][ io'.op[1] = "cancel" =>
             /\ NothingToCancel(sch, io'.op[2]) =>
                    /\ sch' = sch
                    /\ dev' = dev
                    /\ hp' = hp
                    /\ cpu' = cpu
                    /\ drv' = drv
             /\ TimersBut(sch', io'.op[2]) = TimersBut(sch, io'.op[2])
             /\ sch'.fired = sch.fired ]_vars

\* reset_w(1) released the MCU after the reset timer had fired, a periodic
\* timer is armed, and the last step cancelled a one-shot timer that had fired
C20_Witness ==
    /\ sch.timers # << >>
    /\ sch.timers[ResetTimer(sch)].count = 1
    /\ dev.kbd.mcu_reset = CLEAR_LINE
    /\ io.op[1] = "cancel"
    /\ io.op[2] \in DOMAIN sch.timers
    /\ sch.timers[io.op[2]].cb = "payload"
    /\ sch.timers[io.op[2]].period = 0
    /\ sch.timers[io.op[2]].count = 1
    /\ \E g \in DOMAIN sch.timers : sch.timers[g].period > 0 /\ sch.timers[g].enabled

(***************************************************************************)
(* The bring-up of the device graph.                                       *)
(***************************************************************************)
\* the required references declared in g whose target is not in g
MissingRequired(g) == { r \in declared(g) : r.required /\ ~find(g, r.tag) }

\* C21: no reference is bound while the graph is under construction;
\* resolve_all binds every declared reference exactly once, to the device of
\* its tag or, for an optional reference whose target is missing, to the
\* absent sentinel, and the bring-up goes on; if the target of a required
\* reference is missing the bring-up is aborted instead with the unresolved
\* tags enumerated, and no device is ever started.
C21_ResolveAll ==
    LET g == dev.graph
    IN  /\ g.phase = "config" =>
              \A m \in Members : g.binds[m] = 0 /\ g.bound[m] = "unbound"
        /\ g.phase \in { "resolved", "started" } =>
              /\ MissingRequired(g) = { }
              /\ \A r \in DeviceRefs :
                     IF r \in declared(g)
                     THEN /\ g.binds[r.member] = 1
                          /\ g.bound[r.member] =
                                 IF find(g, r.tag) THEN r.tag ELSE "absent"
                     ELSE g.binds[r.member] = 0
        /\ g.phase = "aborted" =>
              /\ MissingRequired(g) # { }
              /\ g.unresolved = { r.tag : r \in MissingRequired(g) }
        /\ g.phase # "started" => g.started = << >>
        /\ \A m \in Members : g.binds[m] <= 1

\* the tnzs was started with its required devices and its sprite generator,
\* m_subcpu and m_mainbank bound to the absent sentinel
C21_Witness ==
    LET g == dev.graph
    IN  /\ g.phase = "started"
        /\ g.bound["m_maincpu"] = "maincpu"
        /\ g.bound["m_palette"] = "palette"
        /\ g.bound["m_seta001"] = "spritegen"
        /\ g.bound["m_subcpu"] = "absent"
        /\ g.bound["m_mainbank"] = "absent"

\* C22 as stated: every device is started only after the devices its start
\* hook goes through have been started; mpu_pc98_device::device_start runs
\* after its slot and the CPU of the slot were started.
C22_StartedAfterUses == dev.graph.early = { }

\* C22: start_all runs after resolve_all has bound every declared reference
\* and starts every device once, in the order of construction, the devices a
\* device owns before the device.  mpu_pc98_device::device_start therefore
\* runs with m_bus and the m_cpu of the slot resolved and after its MPU-401
\* core is started, but before the slot that owns it is started; the CPU is
\* started before it exactly when the CPU was constructed before it.  It
\* installs its handlers in the I/O space in either case.
C22_StartOrder ==
    LET g == dev.graph
    IN  g.phase = "started" =>
          /\ g.started = g.devices
          /\ \A r \in declared(g) : g.binds[r.member] = 1
          /\ \A d \in devices_of(g) :
                 find(g, owner_of(d)) =>
                     place(g.started, d) < place(g.started, owner_of(d))
          /\ find(g, "mpu_pc98") =>
                 /\ g.bound["m_bus"] = "slot"
                 /\ g.bound["m_cpu"] = "cpu"
                 /\ place(g.started, "mpu401") < place(g.started, "mpu_pc98")
                 /\ << "mpu_pc98", "slot" >> \in g.early
                 /\ << "mpu_pc98", "cpu" >> \in g.early <=>
                        place(g.devices, "cpu") > place(g.devices, "mpu_pc98")
                 /\ bus.amap = mpu_pc98_device_start(<< >>)

\* the slot with its card was started, the CPU constructed first
C22_Witness ==
    LET g == dev.graph
    IN  /\ g.phase = "started"
        /\ g.started = << "cpu", "mpu401", "mpu_pc98", "slot" >>
        /\ g.early = { << "mpu_pc98", "slot" >> }
        /\ bus.amap # << >>

(***************************************************************************)
(* C23.  Accesses that are wider than the handler they hit.                *)
(***************************************************************************)
\* the bytes of the last access of the 68000
WideBytes == bus.wide.addr .. (bus.wide.addr + bus.wide.size - 1)

\* the handler calls of the last access that carry the byte at address x
CallsOf(x) ==
    { i \in DOMAIN bus.wide.calls :
        /\ bus.wide.calls[i].addr <= x
        /\ x < bus.wide.calls[i].addr + bus.wide.calls[i].bits \div 8 }

\* a range answers accesses of the kind of the last access at the byte x
Answered(x) == dispatch(bus.amap, x - (x % 2), bus.wide.kind).range # 0

\* the byte x is answered by a range whose handler is wired to its lane
Wired(x) ==
    LET d == dispatch(bus.amap, x - (x % 2), bus.wide.kind)
    IN  /\ d.range # 0
        /\ \/ bus.amap[d.range].bits = 16
           \/ (x % 2) \in lanes(bus.amap[d.range].umask)

\* the last access was wider than a handler it hit
WiderThanHandler ==
    \E i \in DOMAIN bus.wide.calls : bus.wide.calls[i].bits < 8 * bus.wide.size

\* the handler calls of the last access were made in ascending order of the
\* addresses of their parts
AscendingCalls ==
    \A i, j \in DOMAIN bus.wide.calls :
        i < j => bus.wide.calls[i].addr < bus.wide.calls[j].addr

\* C23, as stated: after an access that is wider than the handler it hits,
\* and all of whose bytes are answered by a range, the handler calls were
\* made in ascending address order and every byte of the access was carried
\* by exactly one of them
C23_EveryPartOnce ==
    (WiderThanHandler /\ \A x \in WideBytes : Answered(x))
        => /\ AscendingCalls
           /\ \A x \in WideBytes : Cardinality(CallsOf(x)) = 1

\* C23, amended: after every access, the handler calls were made in
\* ascending address order, every byte of the access that is answered by a
\* handler wired to its byte lane was carried by exactly one call, made to
\* the handler of its range, and every other byte by none
C23_WiredPartsOnce ==
    bus.wide.kind # "none"
        => /\ AscendingCalls
           /\ \A x \in WideBytes :
                /\ Cardinality(CallsOf(x)) = IF Wired(x) THEN 1 ELSE 0
                /\ \A i \in CallsOf(x) :
                     bus.wide.calls[i].handler
                        = dispatch(bus.amap, x - (x % 2), bus.wide.kind).handler

\* a long word was written at 0x880000: the 8-bit handler of the YMZ280B
\* was called twice, with offset 0 and D31-D24, then with offset 1 and
\* D15-D8
C23_Witness ==
    /\ bus.wide.kind = "w" /\ bus.wide.addr = 8912896 /\ bus.wide.size = 4
    /\ Len(bus.wide.calls) = 2
    /\ bus.wide.calls[1] = [ handler |-> "ymz_write", offset |-> 0,
                             addr |-> 8912896, bits |-> 8, data |-> 10 ]
    /\ bus.wide.calls[2] = [ handler |-> "ymz_write", offset |-> 1,
                             addr |-> 8912898, bits |-> 8, data |-> 28 ]

(***************************************************************************)
(* C24.  konmedal68k: writing 1 to bit 3 / bit 4 of the control register.  *)
(***************************************************************************)
\* the step is a run of control_w
ControlWStep == io'.op = << "control_w", 0 >>

\* C24: after a control_w whose bit 3 (bit 4) is 1 while IRQ 3 (IRQ 4) is
\* asserted, the interrupt line is cleared and the interrupt stays enabled
\* for the next scanline 240 (255)
C24_WriteOneAcks ==
    [][ControlWStep =>
          /\ (BIT(io'.data, 3) /\ dev.kon.irq3 = ASSERT_LINE)
                => (dev'.kon.irq3 = CLEAR_LINE /\ BIT(dev'.kon.m_control, 3))
          /\ (BIT(io'.data, 4) /\ dev.kon.irq4 = ASSERT_LINE)
                => (dev'.kon.irq4 = CLEAR_LINE /\ BIT(dev'.kon.m_control, 4))]_vars

\* control_w has returned from a write of 1 to bit 3 and to bit 4, both
\* interrupts are enabled, and IRQ 3 and IRQ 4 are still asserted
C24_Witness ==
    /\ io.op = << "control_w", 0 >>
    /\ BIT(io.data, 3) /\ BIT(io.data, 4)
    /\ BIT(dev.kon.m_control, 3) /\ BIT(dev.kon.m_control, 4)
    /\ dev.kon.irq3 = ASSERT_LINE /\ dev.kon.irq4 = ASSERT_LINE

(***************************************************************************)
(* C25.  hp64k: a write of the I/F control register with interrupt reset.  *)
(***************************************************************************)
\* hp64k_flp_w has returned from a write of IC=1
CtrlWritten == io.op = << "hp64k_flp_w", 1 >>

\* a media change of a selected drive is pending
MediaChangePending ==
    \/ (BIT(hp.m_floppy_status, 2) /\ ~BIT(hp.m_floppy_drv_ctrl, 0))
    \/ (BIT(hp.m_floppy_status, 5) /\ ~BIT(hp.m_floppy_drv_ctrl, 3))

\* C25: when a write of IC=1 returns, DMA enable is bit 13 of the data; when
\* bit 15 of the data is set, both floppy interrupts are cleared, bits 6 and
\* 7 of the status register are 0, and bit 4 of m_irl_pending is set only if
\* a media change of a selected drive is pending
C25_InterruptReset ==
    CtrlWritten =>
        /\ hp.m_floppy_dmaen = BIT(io.data, 13)
        /\ BIT(io.data, 15) =>
             /\ ~hp.m_floppy_dmai /\ ~hp.m_floppy_mdci
             /\ ~BIT(hp.m_floppy_status, 6) /\ ~BIT(hp.m_floppy_status, 7)
             /\ BIT(hp.m_irl_pending, 4) <=> MediaChangePending

\* a write of IC=1 with interrupt reset and DMA enable has returned while the
\* FDC interrupt line is high and a media change of drive 0, which is
\* selected, is pending: bit 4 of m_irl_pending is set
C25_Witness ==
    /\ CtrlWritten /\ BIT(io.data, 15) /\ BIT(io.data, 13)
    /\ hp.m_floppy_intrq /\ hp.m_floppy_dmaen
    /\ MediaChangePending /\ BIT(hp.m_irl_pending, 4)


StartsDmaRead ==
    /\ io'.op = << "hp64k_flp_w", 1 >>
    /\ hp.m_floppy_if_state = HP64K_FLPST_IDLE
    /\ hp'.m_floppy_if_state = HP64K_FLPST_DMARD1

IrqOutDelivered == io.op[1] = "mpu_irq_out"

\* C27: when mpu_irq_out returns, the interrupt line of the slot that DIP
\* switches 5-8 select (irq6 by default) has the state of the IRQ output of
\* the MPU-401 that was delivered
C27_IrqForwarded ==
    IrqOutDelivered =>
        dev.cbus.int[dip_int_line(dev.cbus.dipsw)] = dev.cbus.irq_out

\* mpu_irq_out has returned from the rising edge of the IRQ output, and no
\* interrupt line of the slot is asserted
C27_Witness ==
    /\ IrqOutDelivered /\ io.op[2] = 1 /\ dev.cbus.irq_out = 1
    /\ \A i \in 0..6 : dev.cbus.int[i] = 0

(***************************************************************************)
(* C28.  hp64k: the IRL line follows the interrupt mask and the pending    *)
(* interrupts.                                                             *)
(***************************************************************************)
\* the level that m_irl_mask and m_irl_pending of the record give the line
IrlLevel(h) == IF AND8(h.m_irl_mask, h.m_irl_pending) # 0 THEN 1 ELSE 0

\* the step is a register access, a line callback or a timer callback
AccessOrCallback == HandlerRan /\ io'.op[1] # "machine_reset"

\* C28: when a register access, a line callback or a timer callback that
\* changes m_irl_mask or m_irl_pending returns, the level of HPHYBRID_IRL is
\* (m_irl_mask & m_irl_pending) != 0: none of them changes either variable
\* without re-evaluating the line
C28_IrlReevaluated ==
    [][(/\ AccessOrCallback
        /\ \/ hp'.m_irl_mask # hp.m_irl_mask
           \/ hp'.m_irl_pending # hp.m_irl_pending)
          => cpu'.irl = IrlLevel(hp')]_vars

\* the CPU has written the interrupt mask while the line sync interrupt was
\* pending: the write has enabled the interrupt and the line is asserted
C28_Witness ==
    /\ io.op = << "hp64k_irl_mask_w", 0 >>
    /\ hp.m_irl_mask = 255
    /\ BIT(hp.m_irl_pending, 2)
    /\ cpu.irl = 1

(***************************************************************************)
(* C29.  hp64k: the floppy interrupts, the status register and bit 4 of    *)
(* m_irl_pending.                                                          *)
(***************************************************************************)
\* C29: in every state reachable from machine_reset, bit 6 of the status
\* register is m_floppy_dmai, bit 7 is m_floppy_mdci, and bit 4 of
\* m_irl_pending is set exactly when one of the floppy interrupts or a media
\* change of a selected drive is pending
C29_FloppyIrqConsistent ==
    /\ BIT(hp.m_floppy_status, 6) = hp.m_floppy_dmai
    /\ BIT(hp.m_floppy_status, 7) = hp.m_floppy_mdci
    /\ BIT(hp.m_irl_pending, 4)
         = (hp.m_floppy_dmai \/ hp.m_floppy_mdci \/ MediaChangePending)

\* machine_reset has returned: the FDC interrupt is not pending, and bit 7
\* of the status register is still set
C29_Witness ==
    /\ io.op = << "machine_reset", 0 >>
    /\ ~hp.m_floppy_mdci
    /\ BIT(hp.m_floppy_status, 7)

(***************************************************************************)
(* C30.  hp64k: the DMA request line and the state of the sequencer.       *)
(***************************************************************************)
\* the DMA request is asserted only while the sequencer waits for the CPU
DmarOnlyWaiting(c, h) ==
    c.dmar = 1
        => h.m_floppy_if_state \in { HP64K_FLPST_DMAWR1, HP64K_FLPST_DMARD2 }

\* the step is a read or a write of a floppy register
FloppyAccess == io'.op[1] \in { "hp64k_flp_r", "hp64k_flp_w" }

\* C30: between resets, the DMA request is asserted only in the states
\* DMAWR1 and DMARD2 of the sequencer: no handler but machine_reset leads
\* from a state where this holds to one where it does not; and every read or
\* write of a floppy register, at any IC, starts by taking the request back
C30_DmarOnlyWaiting ==
    [][/\ (AccessOrCallback /\ DmarOnlyWaiting(cpu, hp))
            => DmarOnlyWaiting(cpu', hp')
       /\ FloppyAccess
            => (io'.dmar_calls # << >> /\ io'.dmar_calls[1] = 0)]_vars

\* the sequencer has asserted the DMA request on the second byte of a DMA
\* read cycle and waits in DMARD2 for the CPU to read the word
C30_Witness ==
    /\ io.op[1] = "hp64k_flp_drq_w"
    /\ io.dmar_calls = << 1 >>
    /\ cpu.dmar = 1
    /\ hp.m_floppy_if_state = HP64K_FLPST_DMARD2

(***************************************************************************)
(* C31.  hp64k: every DMA cycle comes to its end.                          *)
(***************************************************************************)
\* C31: when the FDC asserts DRQ again whenever the sequencer waits for it
\* and the CPU answers every DMA request with the matching access and makes
\* no other floppy access during the cycle, every cycle that leaves IDLE
\* returns to IDLE, the cycle whose access is the terminal-count one too
C31_CycleReturns == (~DmaIdle) ~> DmaIdle

\* a DMA write cycle has ended: the CPU wrote the word at IC=2, which
\* cleared DMA enable, and the second DRQ took the sequencer back to IDLE
C31_Witness ==
    /\ io.op = << "hp64k_flp_drq_w", 1 >>
    /\ io.path = << HP64K_FLPST_IDLE >>
    /\ io.fdc_io # << >>
    /\ hp.m_floppy_dmai /\ ~hp.m_floppy_dmaen
    /\ hp.m_floppy_in_latch_msb = 18
    /\ BIT(hp.m_floppy_if_ctrl, 6)

(***************************************************************************)
(* C32.  hp64k: no DMA cycle without DMA enable.                           *)
(***************************************************************************)
\* the step is a call of hp64k_flp_drq_w
DrqStep == io'.op[1] = "hp64k_flp_drq_w"

\* the step is a write of IC=1 with data bit 13 set
EnableWritten == io'.op = << "hp64k_flp_w", 1 >> /\ BIT(io'.data, 13)

IntrqRises ==
    /\ io'.op = << "hp64k_flp_intrq_w", 1 >>
    /\ ~hp.m_floppy_intrq

IntrqMasked == BIT(hp.m_floppy_if_ctrl, 7)

C33_IntrqMasking ==
    [][ /\ IntrqRises =>
            /\ hp'.m_floppy_mdci = ~IntrqMasked
            /\ hp'.m_floppy_intrq
        /\ (~hp.m_floppy_mdci /\ hp'.m_floppy_mdci) =>
            /\ ~hp.m_floppy_intrq
            /\ hp'.m_floppy_intrq
            /\ ~BIT(hp'.m_floppy_if_ctrl, 7)
        /\ (~hp.m_floppy_mdci /\ hp.m_floppy_intrq /\ hp'.m_floppy_intrq) =>
            ~hp'.m_floppy_mdci
      ]_vars

\* the control byte has just been rewritten with bit 7 = 0 while INTRQ is
\* high, and the edge that raised INTRQ is not reported
C33_Witness ==
    /\ io.op = << "hp64k_flp_w", 1 >>
    /\ ~BIT(io.data, 15)
    /\ ~IntrqMasked
    /\ hp.m_floppy_intrq
    /\ ~hp.m_floppy_mdci

(***************************************************************************)
(* C34: the keyboard handshake.  In every reachable state m_kb_scan_on is  *)
(* true exactly when bit 0 of m_irl_pending is clear, and m_kb_row_col is  *)
(* below 128.  A tick of hp64k_kb_scan that finds a key event pending      *)
(* (m_kb_scan_on false) changes neither m_kb_row_col, m_kb_state nor       *)
(* m_kb_pressed, whatever the key matrix reads, and a tick that finds none *)
(* pending latches at most one key change.                                 *)
(***************************************************************************)
KbHandshake ==
    /\ hp.m_kb_scan_on = ~BIT(hp.m_irl_pending, 0)
    /\ hp.m_kb_row_col \in 0..127

KbScanTick == HandlerRan /\ io'.op[1] = "hp64k_kb_scan"

\* the positions at which two matrix states differ
KbDiff(a, b) == (a \ b) \cup (b \ a)

C34_KbHandshake ==
    /\ []KbHandshake
    /\ [][ KbScanTick =>
             /\ ~hp.m_kb_scan_on =>
                   /\ hp'.m_kb_row_col = hp.m_kb_row_col
                   /\ hp'.m_kb_state = hp.m_kb_state
                   /\ hp'.m_kb_pressed = hp.m_kb_pressed
             /\ Cardinality(KbDiff(hp'.m_kb_state, hp.m_kb_state)) <= 1
         ]_vars

\* a key event waits to be read, the matrix has changed again since it was
\* latched, and the scan timer has ticked
C34_Witness ==
    /\ io.op = << "hp64k_kb_scan", 0 >>
    /\ ~hp.m_kb_scan_on
    /\ BIT(hp.m_irl_pending, 0)
    /\ keys # hp.m_kb_state

(***************************************************************************)
(* C35: keyboard liveness.  With the scan timer ticking and the CPU        *)
(* reading the keyboard register on every keyboard interrupt, once the key *)
(* matrix stops changing m_kb_state becomes equal to the matrix and stays  *)
(* so.  On the way every tick that finds the scan on and a difference      *)
(* raises the keyboard interrupt for one position, the first that differs  *)
(* after m_kb_row_col in cyclic order over 0..127, and takes that position *)
(* and no other out of the differences; the read that answers an interrupt *)
(* returns the position in bits 6-0 and in bit 7 whether the key is now    *)
(* pressed.                                                                *)
(***************************************************************************)
\* how many positions p lies after from, going round over 0..127
CyclicDist(from, p) == ((p - from - 1) % 128) + 1

KbLatches == KbScanTick /\ hp.m_kb_scan_on /\ keys # hp.m_kb_state

KbAnswered == HandlerRan /\ io'.op[1] = "hp64k_kb_r" /\ ~hp.m_kb_scan_on

C35_KbLive ==
    /\ <>[](hp.m_kb_state = keys)
    /\ [][ KbLatches =>
             /\ BIT(hp'.m_irl_pending, 0)
             /\ hp'.m_kb_row_col \in KbDiff(keys, hp.m_kb_state)
             /\ \A q \in KbDiff(keys, hp.m_kb_state) :
                    CyclicDist(hp.m_kb_row_col, hp'.m_kb_row_col)
                        <= CyclicDist(hp.m_kb_row_col, q)
             /\ KbDiff(keys, hp'.m_kb_state)
                    = KbDiff(keys, hp.m_kb_state) \ { hp'.m_kb_row_col }
         ]_vars
    /\ [][ KbAnswered =>
             /\ io'.ret % 128 = hp.m_kb_row_col
             /\ BIT(io'.ret, 7) = (hp.m_kb_row_col \in hp.m_kb_state)
             /\ ~BIT(hp'.m_irl_pending, 0)
         ]_vars

\* the last of three key changes has been read: the scan has gone round to
\* position 0, and the matrix has been followed
C35_Witness ==
    /\ io.op = << "hp64k_kb_r", 0 >>
    /\ hp.m_kb_state = keys
    /\ keys = LiveKeys
    /\ hp.m_kb_row_col = 0
    /\ io.ret = 65280 + 128
    /\ hp.m_kb_scan_on
=============================================================================
